---------------------------- MODULE Spec2Model ----------------------------
(***************************************************************************)
(* Reserve currency engine of src/pbaas/reserves.cpp: the conversion       *)
(* algorithm (CCurrencyState::ConvertAmounts), emission                    *)
(* (CCurrencyState::UpdateWithEmission) and the import processor           *)
(* (CReserveTransactionDescriptor::AddReserveTransferImportOutputs).       *)
(*                                                                         *)
(* Amounts.  CAmount is int64_t in the program.  TLC's integers are 32 bit *)
(* wide, so the model keeps every amount at that width: INT64_MAX below is *)
(* the largest amount of the model, and the arith_uint256 intermediate     *)
(* values of the program are natural numbers of unbounded size, kept as    *)
(* little-endian sequences of limbs (the Big... operators).  SATOSHIDEN    *)
(* and every formula keep the program's values.                            *)
(***************************************************************************)
EXTENDS Integers, Sequences, FiniteSets, TLC

SATOSHIDEN == 100000000
INT64_MAX == 2147483647

\* the unit of the amounts of the calls the specifications make
UnitAmount == 100000

---------------------------------------------------------------------------
(* arith_uint256: natural numbers as sequences of limbs, least significant *)
(* first, without leading zero limbs; zero is the empty sequence.          *)

BASE == 10000

Limb(a, k) == IF k <= Len(a) THEN a[k] ELSE 0

Max(x, y) == IF x > y THEN x ELSE y

Min(x, y) == IF x < y THEN x ELSE y

\* a vector of n entries x
RECURSIVE Filled(_, _)
Filled(n, x) == IF n = 0 THEN <<>> ELSE Append(Filled(n - 1, x), x)

(* The operations of the model call one another through Invoke: a call of *)
(* the operation F is written F_(...).                                     *)

RECURSIVE Invoke(_, _)

BigMulSmall_(a, k) == Invoke("BigMulSmall", <<a, k>>)
BigMul_(a, b) == Invoke("BigMul", <<a, b>>)
BigDigit_(r, b) == Invoke("BigDigit", <<r, b>>)
BigDivModAt_(a, b, i) == Invoke("BigDivModAt", <<a, b, i>>)
BigDiv_(a, b) == Invoke("BigDiv", <<a, b>>)
BigMod_(a, b) == Invoke("BigMod", <<a, b>>)
ToBig_(v) == Invoke("ToBig", <<v>>)
GetLow64_(a) == Invoke("GetLow64", <<a>>)
BigPow_(a, k) == Invoke("BigPow", <<a, k>>)
to_int64_(sign, num, den) == Invoke("to_int64", <<sign, num, den>>)
PriceInReserveDec_(st, i) == Invoke("PriceInReserveDec", <<st, i>>)
PriceInReserve_(st, i) == Invoke("PriceInReserve", <<st, i>>)
PricesInReserve_(st) == Invoke("PricesInReserve", <<st>>)
ReserveToNativeRaw_(reserveAmount, exchangeRate) == Invoke("ReserveToNativeRaw", <<reserveAmount, exchangeRate>>)
NativeToReserveRaw_(nativeAmount, exchangeRate) == Invoke("NativeToReserveRaw", <<nativeAmount, exchangeRate>>)
ReserveToNative_(st, reserveAmount, i) == Invoke("ReserveToNative", <<st, reserveAmount, i>>)
NativeToReserve_(st, nativeAmount, i) == Invoke("NativeToReserve", <<st, nativeAmount, i>>)
CalculateFractionalOut_(NormalizedReserveIn, Supply, NormalizedReserve, reserveRatio) == Invoke("CalculateFractionalOut", <<NormalizedReserveIn, Supply, NormalizedReserve, reserveRatio>>)
CalculateReserveOut_(FractionalIn, Supply, NormalizedReserve, reserveRatio) == Invoke("CalculateReserveOut", <<FractionalIn, Supply, NormalizedReserve, reserveRatio>>)
NetFlows_(st, inputReserves, inputFractional, i, fractionalIn, fractionalOut) == Invoke("NetFlows", <<st, inputReserves, inputFractional, i, fractionalIn, fractionalOut>>)
OneLayer_(st, mm, layerHeight, q, isOut, layer) == Invoke("OneLayer", <<st, mm, layerHeight, q, isOut, layer>>)
Layers_(st, mm, layerAmount, isOut, layers) == Invoke("Layers", <<st, mm, layerAmount, isOut, layers>>)
AddShares_(st, map, layer, k, total1, total2, both) == Invoke("AddShares", <<st, map, layer, k, total1, total2, both>>)
AddSecond_(st, map, layer, k, total) == Invoke("AddSecond", <<st, map, layer, k, total>>)
BuyLayers_(st, layers, k, addSupply, addNormalizedReserves, map) == Invoke("BuyLayers", <<st, layers, k, addSupply, addNormalizedReserves, map>>)
SellLayers_(st, layers, k, supplyAfterBuy, addSupply, addBB, addAB, map) == Invoke("SellLayers", <<st, layers, k, supplyAfterBuy, addSupply, addBB, addAB, map>>)
BuyAfterSell_(st, layers, k, supplyAfterSell, addSupply, addNormalizedReserves, map) == Invoke("BuyAfterSell", <<st, layers, k, supplyAfterSell, addSupply, addNormalizedReserves, map>>)
Prices_(st, inputReserves, inputFractional, fractionalOutMap, fractionalInMap, i, rates, newState) == Invoke("Prices", <<st, inputReserves, inputFractional, fractionalOutMap, fractionalInMap, i, rates, newState>>)
FillRates_(st, rates) == Invoke("FillRates", <<st, rates>>)
ConvertLayers_(st, inputReserves, inputFractional, cross) == Invoke("ConvertLayers", <<st, inputReserves, inputFractional, cross>>)
ConvertBuy_(st, layers) == Invoke("ConvertBuy", <<st, layers>>)
ConvertSell_(st, layers, buy) == Invoke("ConvertSell", <<st, layers, buy>>)
ConvertBuyAfterSell_(st, layers, buy, sell) == Invoke("ConvertBuyAfterSell", <<st, layers, buy, sell>>)
ConvertPrices_(st, inputReserves, inputFractional, out, sell) == Invoke("ConvertPrices", <<st, inputReserves, inputFractional, out, sell>>)
FractionsToConvert_(rates, rows) == Invoke("FractionsToConvert", <<rates, rows>>)
ViaCall_(cross, body) == Invoke("ViaCall", <<cross, body>>)
ConvertReturn_(st, _newState, body) == Invoke("ConvertReturn", <<st, _newState, body>>)
ConvertAmountsReturn_(st, _newState, _viaPrices, body, via, viaBody) == Invoke("ConvertAmountsReturn", <<st, _newState, _viaPrices, body, via, viaBody>>)
NewRatio_(InitialRatio, supply, toEmit) == Invoke("NewRatio", <<InitialRatio, supply, toEmit>>)
UpdateWithEmission_(st, toEmit, shuffle) == Invoke("UpdateWithEmission", <<st, toEmit, shuffle>>)
ConvertAmounts_(c) == Invoke("ConvertAmounts", <<c>>)
Within_(c, o) == Invoke("Within", <<c, o>>)
Bit_(c, hi, v, w) == Invoke("Bit", <<c, hi, v, w>>)
MaxAmount_(c, hi) == Invoke("MaxAmount", <<c, hi>>)
ConvertLocals_(st, inputReserves, inputFractional, cross) == Invoke("ConvertLocals", <<st, inputReserves, inputFractional, cross>>)
CalculateConversionFeeNoMin_(inputAmount) == Invoke("CalculateConversionFeeNoMin", <<inputAmount>>)
CalculateConversionFee_(inputAmount) == Invoke("CalculateConversionFee", <<inputAmount>>)
AdditionalFeeDifference_(inputAmount, undefined, newAmount, fee) == Invoke("AdditionalFeeDifference", <<inputAmount, undefined, newAmount, fee>>)
AdditionalFeeAgain_(inputAmount, undefined, fee) == Invoke("AdditionalFeeAgain", <<inputAmount, undefined, fee>>)
AdditionalFeeOfGrossed_(inputAmount, undefined, newAmount) == Invoke("AdditionalFeeOfGrossed", <<inputAmount, undefined, newAmount>>)
CalculateAdditionalConversionFee_(inputAmount, undefined) == Invoke("CalculateAdditionalConversionFee", <<inputAmount, undefined>>)
ImportBegin_(d, a, o) == Invoke("ImportBegin", <<d, a, o>>)
TransferBegin_(m, a, i) == Invoke("TransferBegin", <<m, a, i>>)
TransferFees_(m, a) == Invoke("TransferFees", <<m, a>>)
TransferInputs_(m, a) == Invoke("TransferInputs", <<m, a>>)
CrossSystemInput_(m, a) == Invoke("CrossSystemInput", <<m, a>>)
SameSystemInput_(m, a) == Invoke("SameSystemInput", <<m, a>>)
PreAllocations_(m, a, k) == Invoke("PreAllocations", <<m, a, k>>)
LaunchClear_(m, a) == Invoke("LaunchClear", <<m, a>>)
ConvertOneFee_(m, a, id) == Invoke("ConvertOneFee", <<m, a, id>>)
ConvertFees_(m, a, i) == Invoke("ConvertFees", <<m, a, i>>)
FeeConversion_(m, a) == Invoke("FeeConversion", <<m, a>>)
ExportFee_(m, a) == Invoke("ExportFee", <<m, a>>)
FeeTransfer_(m, a) == Invoke("FeeTransfer", <<m, a>>)
CalculateExportFeeRaw_(fee, numIn) == Invoke("CalculateExportFeeRaw", <<fee, numIn>>)
ExportReward_(exportFee) == Invoke("ExportReward", <<exportFee>>)
PreConverted_(m, a, valueOut, newCurrencyConverted) == Invoke("PreConverted", <<m, a, valueOut, newCurrencyConverted>>)
PreConversion_(m, a) == Invoke("PreConversion", <<m, a>>)
Converted_(m, a, toFractional, valueOut, newCurrencyConverted, outputCurrencyID) == Invoke("Converted", <<m, a, toFractional, valueOut, newCurrencyConverted, outputCurrencyID>>)
ConversionOf_(m, a, toFractional, reserveIdx, oneConversionFee) == Invoke("ConversionOf", <<m, a, toFractional, reserveIdx, oneConversionFee>>)
Conversion_(m, a) == Invoke("Conversion", <<m, a>>)
PlainTransfer_(m, a) == Invoke("PlainTransfer", <<m, a>>)
TransferOutput_(m, a) == Invoke("TransferOutput", <<m, a>>)
Transfers_(m, a, i) == Invoke("Transfers", <<m, a, i>>)
CarveOutsAndBurn_(m, a) == Invoke("CarveOutsAndBurn", <<m, a>>)
ImportConversion_(m, a) == Invoke("ImportConversion", <<m, a>>)
Flows_(m, a) == Invoke("Flows", <<m, a>>)
FeesUndone_(cs, a, transferFees, i) == Invoke("FeesUndone", <<cs, a, transferFees, i>>)
LaunchState_(m, a) == Invoke("LaunchState", <<m, a>>)
Emission_(m, a) == Invoke("Emission", <<m, a>>)
InOuts_(d, a, r, i) == Invoke("InOuts", <<d, a, r, i>>)
ImportEnd_(m, a) == Invoke("ImportEnd", <<m, a>>)
AddReserveTransferImportOutputs_(d, a, o) == Invoke("AddReserveTransferImportOutputs", <<d, a, o>>)

\* without the zero limbs at the most significant end
BigTrim(v) ==
    LET nz == {k \in 1..Len(v) : v[k] # 0}
    IN IF nz = {} THEN <<>> ELSE SubSeq(v, 1, CHOOSE k \in nz : \A j \in nz : j <= k)

\* one round of carries and borrows, all limbs at once
BigCarry(v) ==
    [k \in 1..(Len(v) + 1) |-> (IF k <= Len(v) THEN v[k] % BASE ELSE 0)
                               + (IF k > 1 THEN v[k - 1] \div BASE ELSE 0)]

\* the number whose limbs, not yet in 0..BASE-1, are v
RECURSIVE BigNorm(_)
BigNorm(v) == IF \A k \in 1..Len(v) : v[k] >= 0 /\ v[k] < BASE THEN BigTrim(v)
              ELSE BigNorm(BigTrim(BigCarry(v)))

\* an amount n >= 0 as a number
BigOf(n) == BigTrim(<<n % BASE, (n \div BASE) % BASE, n \div (BASE * BASE)>>)

\* a number that is an amount
BigToInt(a) == Limb(a, 1) + BASE * Limb(a, 2) + BASE * BASE * Limb(a, 3)

\* TRUE, and x is evaluated: an operation evaluates its operands before it uses them
Evaluated(x) == x = x

BigAdd(a, b) ==
    IF Evaluated(a) /\ Evaluated(b)
    THEN BigNorm([k \in 1..Max(Len(a), Len(b)) |-> Limb(a, k) + Limb(b, k)])
    ELSE <<>>

\* a - b for a >= b
BigSub(a, b) ==
    IF Evaluated(a) /\ Evaluated(b)
    THEN BigNorm([k \in 1..Max(Len(a), Len(b)) |-> Limb(a, k) - Limb(b, k)])
    ELSE <<>>

\* a * k for a limb k < BASE
BigMulSmall(a, k) ==
    IF Evaluated(a) THEN BigNorm([i \in 1..Len(a) |-> a[i] * k]) ELSE <<>>

\* the sum of f(lo), ..., f(hi), by halves
RECURSIVE SumRange(_, _, _)
SumRange(f(_), lo, hi) ==
    IF lo > hi THEN 0
    ELSE IF lo = hi THEN f(lo)
    ELSE LET mid == (lo + hi) \div 2 IN SumRange(f, lo, mid) + SumRange(f, mid + 1, hi)

BigMul(a, b) ==
    LET Column(k) == LET Term(i) == a[i] * Limb(b, k + 1 - i)
                     IN SumRange(Term, Max(1, k + 1 - Len(b)), IF k < Len(a) THEN k ELSE Len(a))
    IN IF Evaluated(a) /\ Evaluated(b) /\ Len(a) > 0 /\ Len(b) > 0
       THEN BigNorm([k \in 1..(Len(a) + Len(b) - 1) |-> Column(k)])
       ELSE <<>>

BigCmp(a, b) ==
    LET df == {k \in 1..Max(Len(a), Len(b)) : Limb(a, k) # Limb(b, k)}
        top == CHOOSE k \in df : \A j \in df : j <= k
    IN IF Evaluated(a) /\ Evaluated(b) /\ df = {} THEN 0
       ELSE IF Limb(a, top) < Limb(b, top) THEN -1 ELSE 1

BigLe(a, b) == BigCmp(a, b) <= 0

\* the largest limb d with b * d <= r, for r < b * BASE and the most significant limb of
\* b at least BASE / 2: the estimate from the leading limbs is at most 2 too large
BigDigit(r, b) ==
    LET m    == Len(b)
        qhat == (Limb(r, m + 1) * BASE + Limb(r, m)) \div b[m]
        q0   == IF qhat > BASE - 1 THEN BASE - 1 ELSE qhat
        Le(d) == LET bd == BigMulSmall_(b, d) IN Evaluated(bd) /\ BigLe(bd, r)
    IN IF Le(q0) THEN q0 ELSE IF Le(q0 - 1) THEN q0 - 1 ELSE q0 - 2

\* long division from the most significant limb of the quotient: <<quotient, remainder>>
BigDivModAt(a, b, i) ==
    IF i > Len(a) - Len(b) + 1 \/ i > Len(a) THEN << <<>>, BigTrim(SubSeq(a, i, Len(a))) >>
    ELSE LET up == BigDivModAt_(a, b, i + 1)
             r  == BigTrim(<<a[i]>> \o up[2])
             d  == BigDigit_(r, b)
         IN IF Evaluated(up) /\ Evaluated(r)
            THEN << BigTrim(<<d>> \o up[1]), BigSub(r, BigMulSmall_(b, d)) >>
            ELSE up

\* a / b for b > 0: both scaled first, to bring the most significant limb of b to BASE / 2
BigDiv(a, b) ==
    LET scale == BASE \div (b[Len(b)] + 1)
        sa == BigMulSmall_(a, scale)
        sb == BigMulSmall_(b, scale)
    IN IF Evaluated(a) /\ Evaluated(b) /\ Evaluated(sa) /\ Evaluated(sb)
       THEN BigDivModAt_(sa, sb, 1)[1]
       ELSE <<>>

BigMod(a, b) ==
    LET q  == BigDiv_(a, b)
        qb == BigMul_(q, b)
    IN IF Evaluated(q) /\ Evaluated(qb) THEN BigSub(a, qb) ELSE <<>>

\* 2^w for the w-bit unsigned word an amount converts to (uint64_t in the program)
BigWord == BigAdd(BigAdd(BigOf(INT64_MAX), BigOf(INT64_MAX)), <<2>>)

BigFits(a) == BigLe(a, BigOf(INT64_MAX))

\* arith_uint256(v) for an amount v: a negative v converts as its unsigned word
ToBig(v) == IF v >= 0 THEN BigOf(v) ELSE BigSub(BigWord, BigOf(-v))

\* arith_uint256::GetLow64() assigned to a CAmount: the low word, read as signed
GetLow64(a) ==
    LET r == BigMod_(a, BigWord)
    IN IF BigFits(r) THEN BigToInt(r)
       ELSE IF BigFits(BigSub(BigWord, r)) THEN -BigToInt(BigSub(BigWord, r))
       ELSE -INT64_MAX - 1

---------------------------------------------------------------------------
(* The decimal kernel (cpp_dec_float_50 and CCurrencyState::to_int64).  A  *)
(* decimal value is the exact rational sign * num / den; to_int64          *)
(* truncates it toward zero and fails when the result is no amount.       *)

BigPow(a, k) == IF k = 0 THEN <<1>> ELSE BigMul_(a, BigPow_(a, k - 1))

RECURSIVE Gcd(_, _)
Gcd(a, b) == IF b = 0 THEN a ELSE Gcd(b, a % b)

Sign(v) == IF v < 0 THEN -1 ELSE IF v > 0 THEN 1 ELSE 0

Abs(v) == IF v < 0 THEN -v ELSE v

\* to_int64 of sign * num / den: [ok, value]
to_int64(sign, num, den) ==
    LET q == BigDiv_(num, den)
    IN IF BigFits(q) THEN [ok |-> TRUE, value |-> sign * BigToInt(q)]
       ELSE [ok |-> FALSE, value |-> 0]

\* the condition c of a search holds of the amount o.  A search of CalculateFractionalOut
\* asks (base + o)^e * scale <= bound, one of CalculateReserveOut asks
\* bound <= (base - o)^e * scale
Within(c, o) ==
    IF c.buy
    THEN BigLe(BigMul_(BigPow_(BigAdd(ToBig_(c.base), BigOf(o)), c.e), c.scale), c.bound)
    ELSE BigLe(c.bound, BigMul_(BigPow_(ToBig_(c.base - o), c.e), c.scale))

\* v with the bit of weight w added where c allows it and hi is not exceeded
Bit(c, hi, v, w) == IF w <= hi - v /\ Within_(c, v + w) THEN v + w ELSE v

\* the largest amount o <= hi of which c holds, c being downward closed and true of 0:
\* found bit by bit from the most significant
MaxAmount(c, hi) ==
    LET
        v30 == Bit_(c, hi, 0, 2 ^ 30)
        v29 == Bit_(c, hi, v30, 2 ^ 29)
        v28 == Bit_(c, hi, v29, 2 ^ 28)
        v27 == Bit_(c, hi, v28, 2 ^ 27)
        v26 == Bit_(c, hi, v27, 2 ^ 26)
        v25 == Bit_(c, hi, v26, 2 ^ 25)
        v24 == Bit_(c, hi, v25, 2 ^ 24)
        v23 == Bit_(c, hi, v24, 2 ^ 23)
        v22 == Bit_(c, hi, v23, 2 ^ 22)
        v21 == Bit_(c, hi, v22, 2 ^ 21)
        v20 == Bit_(c, hi, v21, 2 ^ 20)
        v19 == Bit_(c, hi, v20, 2 ^ 19)
        v18 == Bit_(c, hi, v19, 2 ^ 18)
        v17 == Bit_(c, hi, v18, 2 ^ 17)
        v16 == Bit_(c, hi, v17, 2 ^ 16)
        v15 == Bit_(c, hi, v16, 2 ^ 15)
        v14 == Bit_(c, hi, v15, 2 ^ 14)
        v13 == Bit_(c, hi, v14, 2 ^ 13)
        v12 == Bit_(c, hi, v13, 2 ^ 12)
        v11 == Bit_(c, hi, v12, 2 ^ 11)
        v10 == Bit_(c, hi, v11, 2 ^ 10)
        v9 == Bit_(c, hi, v10, 2 ^ 9)
        v8 == Bit_(c, hi, v9, 2 ^ 8)
        v7 == Bit_(c, hi, v8, 2 ^ 7)
        v6 == Bit_(c, hi, v7, 2 ^ 6)
        v5 == Bit_(c, hi, v6, 2 ^ 5)
        v4 == Bit_(c, hi, v5, 2 ^ 4)
        v3 == Bit_(c, hi, v4, 2 ^ 3)
        v2 == Bit_(c, hi, v3, 2 ^ 2)
        v1 == Bit_(c, hi, v2, 2 ^ 1)
        v0 == Bit_(c, hi, v1, 2 ^ 0)
    IN IF Evaluated(v30) /\ Evaluated(v29) /\ Evaluated(v28) /\ Evaluated(v27) /\
          Evaluated(v26) /\ Evaluated(v25) /\ Evaluated(v24) /\ Evaluated(v23) /\
          Evaluated(v22) /\ Evaluated(v21) /\ Evaluated(v20) /\ Evaluated(v19) /\
          Evaluated(v18) /\ Evaluated(v17) /\ Evaluated(v16) /\ Evaluated(v15) /\
          Evaluated(v14) /\ Evaluated(v13) /\ Evaluated(v12) /\ Evaluated(v11) /\
          Evaluated(v10) /\ Evaluated(v9) /\ Evaluated(v8) /\ Evaluated(v7) /\
          Evaluated(v6) /\ Evaluated(v5) /\ Evaluated(v4) /\ Evaluated(v3) /\
          Evaluated(v2) /\ Evaluated(v1) /\ Evaluated(v0)
       THEN v0 ELSE 0

---------------------------------------------------------------------------
(* CCurrencyState: [flags, currencies, weights, reserves, initialSupply,   *)
(* emitted, supply], valid or not.                                         *)

InvalidCurrencyState ==
    [valid |-> FALSE, flags |-> {}, currencies |-> <<>>, weights |-> <<>>,
     reserves |-> <<>>, initialSupply |-> 0, emitted |-> 0, supply |-> 0]

IsFractional(st) == "FRACTIONAL" \in st.flags

\* the price of reserve i as the decimal num / den (PriceInReserveDecFloat50)
PriceInReserveDec(st, i) ==
    IF i > Len(st.reserves) THEN [num |-> <<>>, den |-> <<1>>]
    ELSE IF ~IsFractional(st) THEN [num |-> ToBig_(st.reserves[i]), den |-> <<1>>]
    ELSE IF st.supply = 0 \/ st.weights[i] = 0
         THEN [num |-> ToBig_(st.weights[i]), den |-> <<1>>]
    ELSE [num |-> BigMul_(ToBig_(IF st.reserves[i] = 0 THEN SATOSHIDEN ELSE st.reserves[i]),
                         BigMul_(BigOf(SATOSHIDEN), BigOf(SATOSHIDEN))),
          den |-> BigMul_(ToBig_(st.weights[i]), ToBig_(st.supply))]

PriceInReserve(st, i) ==
    LET p == PriceInReserveDec_(st, i) IN GetLow64_(BigDiv_(p.num, p.den))

PricesInReserve(st) == [i \in 1..Len(st.currencies) |-> PriceInReserve_(st, i)]

\* reserve to fractional at the integer rate: -1 when the result is no amount
ReserveToNativeRaw(reserveAmount, exchangeRate) ==
    IF exchangeRate = 0 THEN 0
    ELSE LET q == BigDiv_(BigMul_(ToBig_(reserveAmount), BigOf(SATOSHIDEN)), ToBig_(exchangeRate))
         IN IF BigFits(q) THEN BigToInt(q) ELSE -1

NativeToReserveRaw(nativeAmount, exchangeRate) ==
    GetLow64_(BigDiv_(BigMul_(ToBig_(nativeAmount), ToBig_(exchangeRate)), BigOf(SATOSHIDEN)))

\* reserve to fractional at the decimal price of reserve i: -1 on overflow
ReserveToNative(st, reserveAmount, i) ==
    LET p == PriceInReserveDec_(st, i)
        r == IF p.num = <<>> THEN [ok |-> TRUE, value |-> 0]
             ELSE to_int64_(1, BigMul_(BigMul_(ToBig_(reserveAmount), BigOf(SATOSHIDEN)), p.den), p.num)
    IN IF r.ok THEN r.value ELSE -1

NativeToReserve(st, nativeAmount, i) ==
    LET p == PriceInReserveDec_(st, i)
        r == to_int64_(1, BigMul_(ToBig_(nativeAmount), p.num), BigMul_(p.den, BigOf(SATOSHIDEN)))
    IN IF r.ok THEN r.value ELSE 0

---------------------------------------------------------------------------
(* CalculateFractionalOut and CalculateReserveOut.  reserveRatio /         *)
(* SATOSHIDEN is the exponent p / q in lowest terms.                       *)

RatioP(reserveRatio) == reserveRatio \div Gcd(reserveRatio, SATOSHIDEN)

RatioQ(reserveRatio) == SATOSHIDEN \div Gcd(reserveRatio, SATOSHIDEN)

\* supply * ((1 + reservein / reserve)^(p/q) - 1), truncated: the largest o with
\* (supply + o)^q * reserve^p <= supply^q * (reserve + reservein)^p; -1 on overflow
CalculateFractionalOut(NormalizedReserveIn, Supply, NormalizedReserve, reserveRatio) ==
    LET supply  == IF Supply = 0 THEN 1 ELSE Supply
        reserve == IF NormalizedReserve = 0 THEN 1 ELSE NormalizedReserve
        p   == RatioP(reserveRatio)
        q   == RatioQ(reserveRatio)
        rhs == BigMul_(BigPow_(ToBig_(supply), q),
                      BigPow_(BigAdd(ToBig_(reserve), ToBig_(NormalizedReserveIn)), p))
        rp  == BigPow_(ToBig_(reserve), p)
        c   == [buy |-> TRUE, base |-> supply, e |-> q, scale |-> rp, bound |-> rhs]
        top == BigAdd(BigAdd(ToBig_(supply), BigOf(INT64_MAX)), <<1>>)
    IN IF NormalizedReserveIn = 0 THEN 0
       ELSE IF BigLe(BigMul_(BigPow_(top, q), rp), rhs) THEN -1
       ELSE MaxAmount_(c, INT64_MAX)

\* reserve * (1 - (1 - fractionalin / supply)^(q/p)), truncated: [ok, value];
\* ok is FALSE where to_int64 fails (the value is no amount, or the power of a
\* negative base to a fractional exponent is no number)
CalculateReserveOut(FractionalIn, Supply, NormalizedReserve, reserveRatio) ==
    LET supply  == IF Supply = 0 THEN 1 ELSE Supply
        reserve == IF NormalizedReserve = 0 THEN 1 ELSE NormalizedReserve
        p    == RatioP(reserveRatio)
        q    == RatioQ(reserveRatio)
        left == supply - FractionalIn
        \* integer exponent q: reserve * (supply^q - left^q) / supply^q
        sq   == BigPow_(ToBig_(Abs(supply)), q)
        lq   == BigPow_(ToBig_(Abs(left)), q)
        lneg == left < 0 /\ q % 2 = 1
        sneg == supply < 0 /\ q % 2 = 1
        \* numerator supply^q - left^q as sign and magnitude
        nsum == (sneg /\ ~lneg) \/ (~sneg /\ lneg)
        nmag == IF nsum THEN BigAdd(sq, lq)
                ELSE IF BigLe(lq, sq) THEN BigSub(sq, lq) ELSE BigSub(lq, sq)
        nsgn == IF nsum THEN (IF sneg THEN -1 ELSE 1)
                ELSE IF BigLe(lq, sq) THEN (IF sneg THEN -1 ELSE 1)
                ELSE (IF sneg THEN 1 ELSE -1)
        dsgn == IF sneg THEN -1 ELSE 1
        \* fractional exponent, 0 <= left <= supply, reserve > 0: the largest o with
        \* (reserve - o)^p * supply^q >= left^q * reserve^p
        rhs  == BigMul_(BigPow_(ToBig_(left), q), BigPow_(ToBig_(reserve), p))
        c    == [buy |-> FALSE, base |-> reserve, e |-> p,
                 scale |-> BigPow_(ToBig_(supply), q), bound |-> rhs]
    IN IF FractionalIn = 0 THEN [ok |-> TRUE, value |-> 0]
       ELSE IF p = 1 THEN to_int64_(Sign(reserve) * nsgn * dsgn, BigMul_(ToBig_(Abs(reserve)), nmag), sq)
       ELSE IF left < 0 \/ supply < 0 \/ reserve < 0 THEN [ok |-> FALSE, value |-> 0]
       ELSE [ok |-> TRUE, value |-> MaxAmount_(c, reserve)]

---------------------------------------------------------------------------
(* CCurrencyState::ConvertAmounts.  A call either returns or trips an      *)
(* assert; the result is [outcome, path, rates, newState, viaPrices] with  *)
(* outcome "abort" for a tripped assert and newState / viaPrices the       *)
(* values of the caller's objects after the call.                          *)

RECURSIVE SumSeq(_)
SumSeq(s) == IF s = <<>> THEN 0 ELSE Head(s) + SumSeq(Tail(s))

RECURSIVE MaxSeq(_)
MaxSeq(s) == IF s = <<>> THEN 0
             ELSE LET m == MaxSeq(Tail(s)) IN IF Head(s) > m THEN Head(s) ELSE m

\* std::multimap::insert: behind the entries whose key is not greater
RECURSIVE MMInsert(_, _)
MMInsert(mm, e) == IF mm = <<>> THEN <<e>>
                   ELSE IF Head(mm).key <= e.key THEN <<Head(mm)>> \o MMInsert(Tail(mm), e)
                   ELSE <<e>> \o mm

\* std::multimap::upper_bound: the first position whose key is greater, 0 for end()
UpperBound(mm, k) ==
    IF \E p \in 1..Len(mm) : mm[p].key > k
    THEN CHOOSE p \in 1..Len(mm) : mm[p].key > k /\ \A r \in 1..(p - 1) : mm[r].key <= k
    ELSE 0

\* net inflow or outflow of fractional currency for each reserve from i on
NetFlows(st, inputReserves, inputFractional, i, fractionalIn, fractionalOut) ==
    IF i > Len(st.currencies)
    THEN [failed |-> FALSE, fractionalIn |-> fractionalIn, fractionalOut |-> fractionalOut]
    ELSE LET asNative      == ReserveToNative_(st, inputReserves[i], i)
             netFractional == inputFractional[i] - asNative
             bigDeltaRatio == BigDiv_(BigMul_(ToBig_(Abs(netFractional)), ToBig_(MaxSeq(st.weights))),
                                     ToBig_(st.weights[i]))
             e == [key |-> BigToInt(bigDeltaRatio), amt |-> Abs(netFractional), idx |-> i]
         IN IF asNative < 0 \/ (netFractional # 0 /\ ~BigFits(bigDeltaRatio))
            THEN [failed |-> TRUE, fractionalIn |-> fractionalIn, fractionalOut |-> fractionalOut]
            ELSE IF netFractional > 0
            THEN NetFlows_(st, inputReserves, inputFractional, i + 1, MMInsert(fractionalIn, e), fractionalOut)
            ELSE IF netFractional < 0
            THEN NetFlows_(st, inputReserves, inputFractional, i + 1, fractionalIn, MMInsert(fractionalOut, e))
            ELSE NetFlows_(st, inputReserves, inputFractional, i + 1, fractionalIn, fractionalOut)

\* one common layer out of the entries q..end of the multimap
OneLayer(st, mm, layerHeight, q, isOut, layer) ==
    IF q > Len(mm) THEN [status |-> "ok", mm |-> mm, layer |-> layer]
    ELSE LET weight    == st.weights[mm[q].idx]
             bigCurAmt == BigDiv_(BigMul_(ToBig_(layerHeight), ToBig_(weight)), ToBig_(MaxSeq(st.weights)))
             curAmt    == GetLow64_(bigCurAmt)
             left      == mm[q].amt - curAmt
         IN IF isOut /\ ~BigFits(bigCurAmt) THEN [status |-> "overflow", mm |-> mm, layer |-> layer]
            ELSE IF left < 0
            THEN [status |-> IF isOut THEN "abort" ELSE "underflow", mm |-> mm, layer |-> layer]
            ELSE OneLayer_(st, [mm EXCEPT ![q].amt = left], layerHeight, q + 1, isOut,
                          [weight |-> layer.weight + weight, amt |-> layer.amt + curAmt,
                           ids |-> Append(layer.ids, mm[q].idx)])

\* the layers of equivalent value, lowest first
Layers(st, mm, layerAmount, isOut, layers) ==
    LET p == UpperBound(mm, layerAmount)
    IN IF p = 0 THEN [status |-> "ok", layers |-> layers]
       ELSE LET r == OneLayer_(st, mm, mm[p].key - layerAmount, p, isOut,
                              [weight |-> 0, amt |-> 0, ids |-> <<>>])
            IN IF r.status # "ok" THEN [status |-> r.status, layers |-> layers]
               ELSE Layers_(st, r.mm, mm[p].key, isOut, Append(layers, r.layer))

NoEntry == [present |-> FALSE, first |-> 0, second |-> 0]

\* the share of total for each currency of a layer, added to field f of its map entry
AddShares(st, map, layer, k, total1, total2, both) ==
    IF k > Len(layer.ids) THEN map
    ELSE LET id == layer.ids[k]
             share(total) == GetLow64_(BigDiv_(BigMul_(ToBig_(total), ToBig_(st.weights[id])),
                                             ToBig_(layer.weight)))
             old == map[id]
             new == IF both
                    THEN [present |-> TRUE, first |-> old.first + share(total1),
                          second |-> old.second + share(total2)]
                    ELSE [present |-> TRUE, first |-> old.first + share(total1), second |-> old.second]
         IN AddShares_(st, [map EXCEPT ![id] = new], layer, k + 1, total1, total2, both)

\* the share of total for each currency of a layer, added to the second member only
AddSecond(st, map, layer, k, total) ==
    IF k > Len(layer.ids) THEN map
    ELSE LET id == layer.ids[k]
             sh == GetLow64_(BigDiv_(BigMul_(ToBig_(total), ToBig_(st.weights[id])), ToBig_(layer.weight)))
         IN AddSecond_(st, [map EXCEPT ![id].second = @ + sh], layer, k + 1, total)

\* all buys layer by layer, before any sell
BuyLayers(st, layers, k, addSupply, addNormalizedReserves, map) ==
    IF k > Len(layers)
    THEN [status |-> "ok", addSupply |-> addSupply,
          addNormalizedReserves |-> addNormalizedReserves, map |-> map]
    ELSE LET layer == layers[k]
             totalLayerReserves ==
                 GetLow64_(BigDiv_(BigMul_(ToBig_(st.supply), ToBig_(layer.weight)), BigOf(SATOSHIDEN)))
                 + addNormalizedReserves
             newSupply == CalculateFractionalOut_(layer.amt, st.supply + addSupply,
                                                 totalLayerReserves, layer.weight)
         IN IF newSupply < 0
            THEN [status |-> "supply", addSupply |-> addSupply,
                  addNormalizedReserves |-> addNormalizedReserves, map |-> map]
            ELSE BuyLayers_(st, layers, k + 1, addSupply + newSupply,
                           addNormalizedReserves + layer.amt,
                           AddShares_(st, map, layer, 1, newSupply, 0, FALSE))

\* all sells layer by layer, both before and after the buys
SellLayers(st, layers, k, supplyAfterBuy, addSupply, addBB, addAB, map) ==
    IF k > Len(layers)
    THEN [status |-> "ok", addSupply |-> addSupply, addBB |-> addBB, addAB |-> addAB, map |-> map]
    ELSE LET layer == layers[k]
             totalBB == GetLow64_(BigDiv_(BigMul_(ToBig_(st.supply), ToBig_(layer.weight)),
                                        BigOf(SATOSHIDEN))) + addBB
             totalAB == GetLow64_(BigDiv_(BigMul_(ToBig_(supplyAfterBuy), ToBig_(layer.weight)),
                                        BigOf(SATOSHIDEN))) + addAB
             newBB == CalculateReserveOut_(layer.amt, st.supply + addSupply, totalBB + addBB, layer.weight)
             newAB == CalculateReserveOut_(layer.amt, supplyAfterBuy + addSupply, totalAB + addAB,
                                          layer.weight)
         IN IF ~newBB.ok \/ ~newAB.ok
            THEN [status |-> "reserveout", addSupply |-> addSupply, addBB |-> addBB,
                  addAB |-> addAB, map |-> map]
            ELSE SellLayers_(st, layers, k + 1, supplyAfterBuy, addSupply - layer.amt,
                            addBB - newBB.value, addAB - newAB.value,
                            AddShares_(st, map, layer, 1, newBB.value, newAB.value, TRUE))

\* all buys layer by layer, after the sells
BuyAfterSell(st, layers, k, supplyAfterSell, addSupply, addNormalizedReserves, map) ==
    IF k > Len(layers) THEN map
    ELSE LET layer == layers[k]
             totalLayerReserves ==
                 GetLow64_(BigDiv_(BigMul_(ToBig_(supplyAfterSell), ToBig_(layer.weight)),
                                 BigOf(SATOSHIDEN))) + addNormalizedReserves
             newSupply == CalculateFractionalOut_(layer.amt, supplyAfterSell + addSupply,
                                                 totalLayerReserves, layer.weight)
         IN BuyAfterSell_(st, layers, k + 1, supplyAfterSell, addSupply + newSupply,
                         addNormalizedReserves + layer.amt, AddSecond_(st, map, layer, 1, newSupply))

\* the conversion rate of each currency from i on, and the state they leave
Prices(st, inputReserves, inputFractional, fractionalOutMap, fractionalInMap, i, rates, newState) ==
    IF i > Len(st.currencies) THEN [status |-> "ok", rates |-> rates, newState |-> newState]
    ELSE IF fractionalOutMap[i].present
    THEN LET fractionDelta == GetLow64_(BigDiv_(BigAdd(ToBig_(fractionalOutMap[i].first),
                                                     ToBig_(fractionalOutMap[i].second)), <<2>>))
             fractionalSize == inputFractional[i] + fractionDelta
             rate == GetLow64_(BigDiv_(BigMul_(ToBig_(inputReserves[i]), BigOf(SATOSHIDEN)),
                                     ToBig_(fractionalSize)))
             add  == IF inputFractional[i] # 0 THEN NativeToReserveRaw_(fractionDelta, rate)
                     ELSE inputReserves[i]
         IN IF ~(fractionalSize > 0) THEN [status |-> "abort", rates |-> rates, newState |-> newState]
            ELSE Prices_(st, inputReserves, inputFractional, fractionalOutMap, fractionalInMap, i + 1,
                        [rates EXCEPT ![i] = rate],
                        [newState EXCEPT !.supply = @ + fractionDelta, !.reserves[i] = @ + add])
    ELSE IF fractionalInMap[i].present
    THEN LET adjustedReserveDelta ==
                 NativeToReserve_(st, GetLow64_(BigDiv_(BigAdd(ToBig_(fractionalInMap[i].first),
                                                            ToBig_(fractionalInMap[i].second)), <<2>>)), i)
             reserveSize == inputReserves[i] + adjustedReserveDelta
             rate == GetLow64_(BigDiv_(BigMul_(ToBig_(reserveSize), BigOf(SATOSHIDEN)),
                                     ToBig_(inputFractional[i])))
         IN IF ~(inputFractional[i] > 0) THEN [status |-> "abort", rates |-> rates, newState |-> newState]
            ELSE Prices_(st, inputReserves, inputFractional, fractionalOutMap, fractionalInMap, i + 1,
                        [rates EXCEPT ![i] = rate],
                        [newState EXCEPT !.supply = @ - inputFractional[i],
                                         !.reserves[i] = @ - adjustedReserveDelta])
    ELSE Prices_(st, inputReserves, inputFractional, fractionalOutMap, fractionalInMap, i + 1,
                rates, newState)

\* FillRates with the index of the price lost: every missing rate is the first price
FillRatesFirst(st, rates) ==
    [i \in 1..Len(rates) |-> IF rates[i] = 0 THEN PriceInReserve_(st, 1) ELSE rates[i]]

\* rates[i] = PriceInReserve(i) where no rate was calculated
FillRates(st, rates) ==
    [i \in 1..Len(rates) |-> IF rates[i] = 0 THEN PriceInReserve_(st, i) ELSE rates[i]]

NoCrossConversions == [present |-> FALSE, rows |-> <<>>]

CrossConversions(rows) == [present |-> TRUE, rows |-> rows]

(* The call is computed in stages, each the value of locals of the         *)
(* function; a stage that follows a failed one carries its status on.      *)
(* status: "ok", "abort" for a tripped assert, "reserveout" for the assert  *)
(* of CalculateReserveOut, or the check that failed.                       *)

\* the checks of the arguments, the net flows and the layers
ConvertLayers(st, inputReserves, inputFractional, cross) ==
    LET n == Len(st.currencies)
        r(status, lin, lout) == [status |-> status, layersIn |-> lin, layersOut |-> lout]
        sizesOk == Len(inputReserves) = Len(inputFractional) /\ Len(inputReserves) = n
                   /\ (~cross.present \/ Len(cross.rows) = n)
        rowsOk  == ~cross.present \/ \A i \in 1..n : Len(cross.rows[i]) = n
        haveConversion == rowsOk /\ \E i \in 1..n : inputReserves[i] # 0 \/ inputFractional[i] # 0
        flows     == NetFlows_(st, inputReserves, inputFractional, 1, <<>>, <<>>)
        layersIn  == Layers_(st, flows.fractionalIn, 0, FALSE, <<>>)
        layersOut == Layers_(st, flows.fractionalOut, 0, TRUE, <<>>)
    IN IF ~sizesOk THEN r("parameters", <<>>, <<>>)
       ELSE IF ~haveConversion THEN r("noconversion", <<>>, <<>>)
       ELSE IF \E i \in 1..n : inputReserves[i] < 0 \/ inputFractional[i] < 0
       THEN r("negative", <<>>, <<>>)
       ELSE IF (\E i \in 1..n : st.weights[i] = 0) \/ MaxSeq(st.weights) = 0
               \/ SumSeq(st.weights) > SATOSHIDEN
       THEN r("weights", <<>>, <<>>)
       ELSE IF flows.failed THEN r("overflow", <<>>, <<>>)
       ELSE IF layersIn.status # "ok" THEN r(layersIn.status, <<>>, <<>>)
       ELSE IF layersOut.status # "ok" THEN r(layersOut.status, <<>>, <<>>)
       ELSE r("ok", layersIn.layers, layersOut.layers)

\* ConvertBuy with the two sets of layers mixed up: the buy pass over the sells
ConvertBuyInflows(st, layers) ==
    LET none == [status |-> layers.status, addSupply |-> 0, addNormalizedReserves |-> 0,
                 map |-> <<>>]
        buy  == BuyLayers_(st, layers.layersIn, 1, 0, 0, Filled(Len(st.currencies), NoEntry))
    IN IF layers.status # "ok" THEN none
       ELSE IF buy.status = "ok"
               /\ (st.supply + buy.addSupply < 0 \/ st.supply + buy.addNormalizedReserves < 0)
       THEN [none EXCEPT !.status = "abort"]
       ELSE buy

\* the buys before any sell, and the asserts on what they leave
ConvertBuy(st, layers) ==
    LET none == [status |-> layers.status, addSupply |-> 0, addNormalizedReserves |-> 0,
                 map |-> <<>>]
        buy  == BuyLayers_(st, layers.layersOut, 1, 0, 0, Filled(Len(st.currencies), NoEntry))
    IN IF layers.status # "ok" THEN none
       ELSE IF buy.status = "ok"
               /\ (st.supply + buy.addSupply < 0 \/ st.supply + buy.addNormalizedReserves < 0)
       THEN [none EXCEPT !.status = "abort"]
       ELSE buy

\* the sells before and after the buys, and the asserts on what they leave
ConvertSell(st, layers, buy) ==
    LET none == [status |-> buy.status, addSupply |-> 0, addBB |-> 0, addAB |-> 0, map |-> <<>>]
        supplyAfterBuy  == st.supply + buy.addSupply
        reserveAfterBuy == st.supply + buy.addNormalizedReserves
        sell == SellLayers_(st, layers.layersIn, 1, supplyAfterBuy, 0, 0, 0,
                           Filled(Len(st.currencies), NoEntry))
    IN IF buy.status # "ok" THEN none
       ELSE IF sell.status = "ok"
               /\ (st.supply + sell.addSupply < 0 \/ supplyAfterBuy + sell.addSupply < 0
                   \/ st.supply + sell.addBB < 0 \/ reserveAfterBuy + sell.addAB < 0)
       THEN [none EXCEPT !.status = "abort"]
       ELSE sell

\* the buys after the sells: fractionalOutMap complete
ConvertBuyAfterSell(st, layers, buy, sell) ==
    IF sell.status # "ok" THEN [status |-> sell.status, map |-> <<>>]
    ELSE [status |-> "ok",
          map |-> BuyAfterSell_(st, layers.layersOut, 1, st.supply + sell.addSupply, 0, 0, buy.map)]

\* the rates and the new state
ConvertPrices(st, inputReserves, inputFractional, out, sell) ==
    IF out.status # "ok" THEN [status |-> out.status, rates |-> <<>>, newState |-> st]
    ELSE Prices_(st, inputReserves, inputFractional, out.map, sell.map, 1,
                Filled(Len(st.currencies), 0), st)

ConvertRToR(cross) ==
    cross.present /\ \E i, j \in 1..Len(cross.rows) : cross.rows[i][j] # 0

\* the fractional to convert on to each reserve j: the cross conversions of every reserve i
\* at the rate just calculated for i
FractionsToConvert(rates, rows) ==
    LET RECURSIVE Col(_, _)
        Col(j, i) == IF i = 0 THEN 0
                     ELSE Col(j, i - 1) + (IF rows[i][j] # 0
                                           THEN ReserveToNativeRaw_(rows[i][j], rates[i]) ELSE 0)
    IN [j \in 1..Len(rows) |-> Col(j, Len(rows))]

\* the arguments of the second call, on the state the first conversion left:
\* made only when the first succeeded and there is a cross conversion
ViaCall(cross, body) ==
    IF body.status = "ok" /\ ConvertRToR(cross)
    THEN [made |-> TRUE, st |-> body.newState,
          inputReserves |-> Filled(Len(body.rates), 0),
          inputFractional |-> FractionsToConvert_(body.rates, cross.rows)]
    ELSE [made |-> FALSE, st |-> body.newState, inputReserves |-> <<>>, inputFractional |-> <<>>]

\* the statuses that end the process: a tripped assert of ConvertAmounts, or the
\* assert(false) of CalculateReserveOut where its result is no amount
Aborts(status) == status \in {"abort", "reserveout"}

\* ConvertReturn without the assignment of the no-conversion return
ConvertReturnUntouched(st, _newState, body) ==
    [outcome  |-> IF Aborts(body.status) THEN "abort" ELSE "returned",
     path     |-> body.status,
     rates    |-> IF body.status = "ok" THEN FillRates_(st, body.rates) ELSE PricesInReserve_(st),
     newState |-> IF body.status = "ok" THEN body.newState ELSE _newState]

\* the locals of a call as its stages leave them: [layers, buy, sell, out, body]
ConvertLocals(st, inputReserves, inputFractional, cross) ==
    LET layers == ConvertLayers_(st, inputReserves, inputFractional, cross)
        buy    == ConvertBuy_(st, layers)
        sell   == ConvertSell_(st, layers, buy)
        out    == ConvertBuyAfterSell_(st, layers, buy, sell)
        body   == ConvertPrices_(st, inputReserves, inputFractional, out, sell)
    IN [layers |-> layers, buy |-> buy, sell |-> sell, out |-> out, body |-> body]

\* what a call without cross conversions returns, given the outcome of its stages
ConvertReturn(st, _newState, body) ==
    [outcome  |-> IF Aborts(body.status) THEN "abort" ELSE "returned",
     path     |-> body.status,
     rates    |-> IF body.status = "ok" THEN FillRates_(st, body.rates) ELSE PricesInReserve_(st),
     newState |-> IF body.status = "ok" THEN body.newState
                  ELSE IF body.status = "noconversion" THEN st
                  ELSE _newState]

\* what the call returns, given the outcome of its stages and of the second call:
\* [outcome, path, rates, newState, viaPrices]
ConvertAmountsReturn(st, _newState, _viaPrices, body, via, viaBody) ==
    LET first  == ConvertReturn_(st, _newState, body)
        second == ConvertReturn_(via.st, body.newState, viaBody)
    IN IF ~via.made
       THEN [outcome |-> first.outcome, path |-> first.path, rates |-> first.rates,
             newState |-> first.newState, viaPrices |-> _viaPrices]
       ELSE IF second.outcome = "abort"
       THEN [outcome |-> "abort", path |-> "via" \o second.path, rates |-> first.rates,
             newState |-> _newState, viaPrices |-> _viaPrices]
       ELSE [outcome |-> "returned", path |-> "via" \o second.path, rates |-> first.rates,
             newState |-> second.newState, viaPrices |-> second.rates]

---------------------------------------------------------------------------
(* CCurrencyState::UpdateWithEmission.                                     *)

\* CCurrencyValueMap(currencies, reserves) <= CCurrencyValueMap(): no reserve of the
\* currency holds a positive amount
NoReserves(st) == \A i \in 1..Len(st.reserves) : st.reserves[i] <= 0

\* the new total ratio: the ratio at the new supply, capped at 1, by banker's rounding
NewRatio(InitialRatio, supply, toEmit) ==
    LET bigSatoshi == BigOf(SATOSHIDEN)
        scratch == BigDiv_(BigMul_(BigMul_(ToBig_(InitialRatio), ToBig_(supply)), bigSatoshi),
                          BigAdd(ToBig_(supply), ToBig_(toEmit)))
        ratio   == BigDiv_(scratch, bigSatoshi)
        capped  == BigLe(bigSatoshi, ratio)
        bigScratch == IF capped THEN BigMul_(bigSatoshi, bigSatoshi) ELSE scratch
        bigRatio   == IF capped THEN bigSatoshi ELSE ratio
        newRatio   == GetLow64_(bigRatio)
        remainder  == GetLow64_(BigSub(bigScratch, BigMul_(bigRatio, bigSatoshi)))
    IN IF Evaluated(scratch) /\ Evaluated(ratio) /\ Evaluated(newRatio) /\ Evaluated(remainder)
       THEN IF remainder > SATOSHIDEN \div 2
               \/ (remainder = SATOSHIDEN \div 2 /\ newRatio % 2 = 1)
            THEN newRatio + 1
            ELSE newRatio
       ELSE 0

\* extraWeight before the shuffle: forAll for every currency, one more for the first
\* forSome of them (for each of them when forSome is negative)
ExtraWeight(n, forAll, forSome) ==
    [i \in 1..n |-> forAll + (IF forSome < 0 \/ i <= forSome THEN 1 ELSE 0)]

\* an emission that adds to the supply whatever the supply is
UpdateWithEmissionAdding(st, toEmit, shuffle) ==
    [st EXCEPT !.initialSupply = st.supply, !.emitted = toEmit,
               !.supply = st.supply + toEmit]

\* shuffle is the order std::shuffle puts the extra weights in: a permutation of 1..n
UpdateWithEmission(st, toEmit, shuffle) ==
    LET n == Len(st.currencies)
        InitialRatio == SumSeq(st.weights)
        newRatio     == NewRatio_(InitialRatio, st.supply, toEmit)
        bigRatioDelta == ToBig_(InitialRatio - newRatio)
        weightDelta  == [i \in 1..n |->
                            GetLow64_(BigDiv_(BigMul_(bigRatioDelta, ToBig_(st.weights[i])),
                                            BigOf(SATOSHIDEN)))]
        updateExtra  == (InitialRatio - newRatio) - SumSeq(weightDelta)
        \* a CAmount divided by a size_t: both operands unsigned
        forAll       == GetLow64_(BigDiv_(ToBig_(updateExtra), BigOf(n)))
        forSome      == GetLow64_(BigMod_(ToBig_(updateExtra), BigOf(n)))
        extraWeight  == ExtraWeight(n, forAll, forSome)
        shuffled     == [i \in 1..n |->
                            st.weights[i] - weightDelta[i]
                            - (IF updateExtra # 0 THEN extraWeight[shuffle[i]] ELSE 0)]
        begun == [st EXCEPT !.initialSupply = st.supply, !.emitted = 0]
    IN IF ~IsFractional(st) \/ st.supply <= 0 \/ NoReserves(st)
       THEN [begun EXCEPT !.emitted = toEmit,
                          !.supply = IF st.supply < 0 THEN toEmit ELSE st.supply + toEmit]
       ELSE IF toEmit = 0 THEN begun
       ELSE IF Evaluated(newRatio) /\ Evaluated(weightDelta) /\ Evaluated(updateExtra)
               /\ Evaluated(extraWeight)
       THEN [begun EXCEPT !.weights = shuffled, !.emitted = toEmit,
                          !.supply = st.supply + toEmit]
       ELSE begun

NoStage == [status |-> "none"]

\* the locals of a call that was not made
NoLocals == [layers |-> NoStage, buy |-> NoStage, sell |-> NoStage, out |-> NoStage,
             body |-> NoStage]

\* CCurrencyState::ConvertAmounts(c.inputReserves, c.inputFractional, c.newState, c.cross,
\* c.viaPrices) on c.st: the locals of the call (cv), the second call it makes (viaCall)
\* with its locals (via), and what the call returns and leaves in the caller's newState
\* and viaPrices (ret)
ConvertAmounts(c) ==
    LET locals == ConvertLocals_(c.st, c.inputReserves, c.inputFractional, c.cross)
        second == ViaCall_(c.cross, locals.body)
        secondLocals == IF second.made
                        THEN ConvertLocals_(second.st, second.inputReserves,
                                            second.inputFractional, NoCrossConversions)
                        ELSE NoLocals
    IN [cv |-> locals, viaCall |-> second, via |-> secondLocals,
        ret |-> ConvertAmountsReturn_(c.st, c.newState, c.viaPrices, locals.body, second,
                                      secondLocals.body)]

---------------------------------------------------------------------------
(* The import processor, CReserveTransactionDescriptor::                   *)
(* AddReserveTransferImportOutputs.  Currency ids are strings, "null" the  *)
(* null id.  A CCurrencyValueMap is a record with a field for every id of  *)
(* the model: the entry [has, amt] tells whether valueMap holds the key    *)
(* and the amount it holds.  The keys are visited in the order of          *)
(* CurrencyIds.                                                            *)

CurrencyIds == <<"frac", "none", "null", "src", "tok", "usd", "vrsc">>

NoValue == [has |-> FALSE, amt |-> 0]

CCurrencyValueMap ==
    [frac |-> NoValue, none |-> NoValue, null |-> NoValue, src |-> NoValue,
     tok |-> NoValue, usd |-> NoValue, vrsc |-> NoValue]

\* valueMap[id] += value
MapAdd(map, id, value) == [map EXCEPT ![id] = [has |-> TRUE, amt |-> @.amt + value]]

\* valueMap[id] = value
MapPut(map, id, value) == [map EXCEPT ![id] = [has |-> TRUE, amt |-> value]]

\* integer division of C++, which truncates toward zero
Quotient(x, y) == Sign(x) * Sign(y) * (Abs(x) \div Abs(y))

RECURSIVE MapMinusFrom(_, _, _)
MapMinusFrom(a, b, i) ==
    IF i > Len(CurrencyIds) THEN a
    ELSE MapMinusFrom(IF b[CurrencyIds[i]].has
                      THEN MapAdd(a, CurrencyIds[i], 0 - b[CurrencyIds[i]].amt)
                      ELSE a, b, i + 1)

\* a - b
MapMinus(a, b) == MapMinusFrom(a, b, 1)

RECURSIVE MapOver(_, _, _)
MapOver(a, k, i) ==
    IF i > Len(CurrencyIds) THEN a
    ELSE MapOver([a EXCEPT ![CurrencyIds[i]].amt = Quotient(@, k)], k, i + 1)

\* a / k
MapDivide(a, k) == MapOver(a, k, 1)

RECURSIVE CanonicalFrom(_, _)
CanonicalFrom(a, i) ==
    IF i > Len(CurrencyIds) THEN a
    ELSE CanonicalFrom([a EXCEPT ![CurrencyIds[i]] = IF @.amt = 0 THEN NoValue ELSE @], i + 1)

\* the map without its zero entries
CanonicalMap(a) == CanonicalFrom(a, 1)

HasNegative(a) == \E i \in 1..Len(CurrencyIds) : a[CurrencyIds[i]].amt < 0

MapSize(a) == Cardinality({i \in 1..Len(CurrencyIds) : a[CurrencyIds[i]].has})

RECURSIVE AsCurrencyVectorTo(_, _, _)
AsCurrencyVectorTo(a, currencies, n) ==
    IF n = 0 THEN <<>>
    ELSE Append(AsCurrencyVectorTo(a, currencies, n - 1), a[currencies[n]].amt)

\* the amounts of the map in the positions of currencies
AsCurrencyVector(a, currencies) == AsCurrencyVectorTo(a, currencies, Len(currencies))

RECURSIVE VectorSum(_, _, _)
VectorSum(v, w, n) ==
    IF n = 0 THEN <<>> ELSE Append(VectorSum(v, w, n - 1), v[n] + w[n])

\* position of id in currencies, 0 when it is not one of them (the index map of the
\* source counts from 0 and has no entry then)
IndexOf(currencies, id) ==
    IF \E i \in 1..Len(currencies) : currencies[i] = id
    THEN CHOOSE i \in 1..Len(currencies) : currencies[i] = id
    ELSE 0

---------------------------------------------------------------------------
(* The ledgers of the descriptor: currencies maps a currency id to its     *)
(* CReserveInOuts, has telling whether the map holds the key.              *)

CReserveInOuts ==
    [has |-> FALSE, reserveIn |-> 0, reserveOut |-> 0, reserveOutConverted |-> 0,
     nativeOutConverted |-> 0, reserveConversionFees |-> 0]

CReserveTransactionDescriptor ==
    [currencies |-> [frac |-> CReserveInOuts, none |-> CReserveInOuts,
                     null |-> CReserveInOuts, src |-> CReserveInOuts,
                     tok |-> CReserveInOuts, usd |-> CReserveInOuts,
                     vrsc |-> CReserveInOuts],
     nativeIn |-> 0, nativeOut |-> 0, numTransfers |-> 0]

AddReserveInput(d, currency, value) ==
    [d EXCEPT !.currencies[currency] = [@ EXCEPT !.has = TRUE, !.reserveIn = @ + value]]

AddReserveOutput(d, currency, value) ==
    [d EXCEPT !.currencies[currency] = [@ EXCEPT !.has = TRUE, !.reserveOut = @ + value]]

AddReserveOutConverted(d, currency, value) ==
    [d EXCEPT !.currencies[currency] =
                  [@ EXCEPT !.has = TRUE, !.reserveOutConverted = @ + value]]

AddNativeOutConverted(d, currency, value) ==
    [d EXCEPT !.currencies[currency] =
                  [@ EXCEPT !.has = TRUE, !.nativeOutConverted = @ + value]]

AddReserveConversionFees(d, currency, value) ==
    [d EXCEPT !.currencies[currency] =
                  [@ EXCEPT !.has = TRUE, !.reserveConversionFees = @ + value]]

AddNativeIn(d, value) == [d EXCEPT !.nativeIn = @ + value]

AddNativeOut(d, value) == [d EXCEPT !.nativeOut = @ + value]

RECURSIVE ResetInsFrom(_, _)
ResetInsFrom(d, i) ==
    IF i > Len(CurrencyIds) THEN d
    ELSE ResetInsFrom([d EXCEPT !.currencies[CurrencyIds[i]] =
                                    [@ EXCEPT !.reserveIn = 0, !.reserveOut = 0]], i + 1)

RECURSIVE LedgerMapFrom(_, _, _, _)
LedgerMapFrom(d, field, skip, i) ==
    IF i = 0 THEN CCurrencyValueMap
    ELSE LET id == CurrencyIds[i]
             rest == LedgerMapFrom(d, field, skip, i - 1)
         IN IF d.currencies[id].has /\ id # skip /\ d.currencies[id][field] # 0
            THEN MapPut(rest, id, d.currencies[id][field])
            ELSE rest

---------------------------------------------------------------------------
(* Currency definitions, currency states and reserve transfers.  A         *)
(* CCurrencyDefinition is [valid, id, systemID, launchSystemID, gatewayID, *)
(* options, currencies, preAllocation, gatewayConverterIssuance,           *)
(* totalCarveOut, currencyRegistrationFee]; a CCoinbaseCurrencyState adds  *)
(* the flow vectors to a CCurrencyState; a CReserveTransfer is [valid,     *)
(* flags, currency, amount, feeCurrencyID, nFees, destCurrencyID,          *)
(* secondReserveID, destination], currency and amount being its one        *)
(* reserve value and destination [type, gatewayLeg, gatewayID, fees,       *)
(* size].                                                                  *)

SUCCESS_FEE == 25000
MIN_SUCCESS_FEE == 20000
DEFAULT_PER_STEP_FEE == 10000
DESTINATION_BYTE_DIVISOR == 128

\* CCrossChainExport: the export fee below which the exporter is paid all of it
MIN_FEES_BEFORE_FEEPOOL == 20000

NoCurrencyDefinition ==
    [valid |-> FALSE, id |-> "null", systemID |-> "null", launchSystemID |-> "null",
     gatewayID |-> "null", options |-> {}, currencies |-> <<>>, preAllocation |-> <<>>,
     gatewayConverterIssuance |-> 0, totalCarveOut |-> 0, currencyRegistrationFee |-> 0]

DefIsFractional(def) == "FRACTIONAL" \in def.options
DefIsToken(def) == "TOKEN" \in def.options
DefIsGateway(def) == "GATEWAY" \in def.options
DefIsPBaaSChain(def) == "PBAAS" \in def.options
DefIsPBaaSConverter(def) == "PBAAS_CONVERTER" \in def.options

IsLaunchClear(st) == "LAUNCH_CLEAR" \in st.flags
IsLaunchConfirmed(st) == "LAUNCH_CONFIRMED" \in st.flags
IsLaunchCompleteMarker(st) == "LAUNCH_COMPLETE" \in st.flags
IsPrelaunch(st) == "PRELAUNCH" \in st.flags
IsRefunding(st) == "REFUNDING" \in st.flags

\* a CCoinbaseCurrencyState of the currency state st with no flows
CCoinbaseCurrencyState(st, conversionPrice, viaConversionPrice) ==
    [valid |-> st.valid, flags |-> st.flags, currencies |-> st.currencies,
     weights |-> st.weights, reserves |-> st.reserves,
     initialSupply |-> st.initialSupply, emitted |-> st.emitted, supply |-> st.supply,
     reserveIn |-> Filled(Len(st.currencies), 0),
     nativeIn |-> Filled(Len(st.currencies), 0),
     reserveOut |-> Filled(Len(st.currencies), 0),
     conversionPrice |-> conversionPrice, viaConversionPrice |-> viaConversionPrice,
     fees |-> Filled(Len(st.currencies), 0),
     conversionFees |-> Filled(Len(st.currencies), 0),
     nativeFees |-> 0, nativeConversionFees |-> 0, nativeOut |-> 0, preConvertedOut |-> 0]

\* the CCurrencyState part of a CCoinbaseCurrencyState
AsCurrencyState(cs) ==
    [valid |-> cs.valid, flags |-> cs.flags, currencies |-> cs.currencies,
     weights |-> cs.weights, reserves |-> cs.reserves,
     initialSupply |-> cs.initialSupply, emitted |-> cs.emitted, supply |-> cs.supply]

ClearForNextBlock(cs) ==
    [cs EXCEPT !.emitted = 0,
               !.reserveIn = Filled(Len(cs.currencies), 0),
               !.nativeIn = Filled(Len(cs.currencies), 0),
               !.reserveOut = Filled(Len(cs.currencies), 0),
               !.fees = Filled(Len(cs.currencies), 0),
               !.conversionFees = Filled(Len(cs.currencies), 0),
               !.nativeFees = 0, !.nativeConversionFees = 0, !.nativeOut = 0,
               !.preConvertedOut = 0]

IsPreConversion(t) == "PRECONVERT" \in t.flags
IsConversion(t) == "CONVERT" \in t.flags
IsReserveToReserve(t) == "RESERVE_TO_RESERVE" \in t.flags
IsFeeOutput(t) == "FEE_OUTPUT" \in t.flags
IsImportToSource(t) == "IMPORT_TO_SOURCE" \in t.flags
IsMint(t) == t.flags \cap {"MINT_CURRENCY", "PREALLOCATE"} # {}
IsBurn(t) == t.flags \cap {"BURN_CHANGE_PRICE", "BURN_CHANGE_WEIGHT"} # {}
IsBurnChangeWeight(t) == "BURN_CHANGE_WEIGHT" \in t.flags

\* CTransferDestination(): no destination
NoDestination ==
    [type |-> "invalid", gatewayLeg |-> FALSE, gatewayID |-> "null", fees |-> 0,
     size |-> 0]

CReserveTransfer(flags, cID, value, feeCurrencyID, fees, destCurID, dest) ==
    [valid |-> dest.type # "invalid", flags |-> flags, currency |-> cID, amount |-> value,
     feeCurrencyID |-> feeCurrencyID, nFees |-> fees, destCurrencyID |-> destCurID,
     secondReserveID |-> "null", destination |-> dest]

\* GetRefundTransfer that does not take the amount from a mint or pre-allocation
GetRefundTransferKeepingAmount(t) ==
    [t EXCEPT !.destination = IF @.type = "fullid" /\ ~@.gatewayLeg
                              THEN [@ EXCEPT !.type = "id", !.gatewayID = "null",
                                             !.fees = 0]
                              ELSE @,
              !.flags = (@ \ {"DOUBLE_SEND", "PRECONVERT", "CONVERT"}) \cup {"REFUND"},
              !.destCurrencyID = t.currency]

GetRefundTransfer(t) ==
    LET minted == t.flags \cap {"PREALLOCATE", "MINT_CURRENCY"} # {}
    IN [t EXCEPT !.destination = IF @.type = "fullid" /\ ~@.gatewayLeg
                                 THEN [@ EXCEPT !.type = "id", !.gatewayID = "null",
                                                !.fees = 0]
                                 ELSE @,
                 !.flags = (@ \ {"DOUBLE_SEND", "PRECONVERT", "CONVERT", "PREALLOCATE",
                                 "MINT_CURRENCY"}) \cup {"REFUND"},
                 !.amount = IF minted THEN 0 ELSE @,
                 !.destCurrencyID = t.currency]

\* a CTxOut: nValue is -1 in the null output; kind is "pay" for a payment of the
\* native currency, "token" for a CTokenOutput and "transfer" for a reserve transfer of
\* the next leg; currency and amount are the reserve value the output carries
NullOut == [nValue |-> -1, kind |-> "null", currency |-> "null", amount |-> 0,
            to |-> NoDestination]

\* CReserveTransfer::GetTxOut(reserves, nativeAmount, txOut), reserves holding amount of
\* currency, or nothing when currency is "null": txOut is left as it was when the
\* function returns false
GetTxOut(t, currency, amount, nativeAmount, txOut) ==
    IF t.destination.gatewayLeg
    THEN IF t.destination.type # "nested"
         THEN [nValue |-> nativeAmount, kind |-> "transfer", currency |-> currency,
               amount |-> amount, to |-> [t.destination EXCEPT !.gatewayLeg = FALSE]]
         ELSE txOut
    ELSE IF currency = "null" /\ nativeAmount # 0
         THEN IF t.destination.type \in {"id", "pk", "pkh", "sh"}
              THEN [nValue |-> nativeAmount, kind |-> "pay", currency |-> "null",
                    amount |-> 0, to |-> t.destination]
              ELSE txOut
         ELSE IF t.destination.type \in {"id", "pk", "pkh"}
              THEN [nValue |-> nativeAmount, kind |-> "token", currency |-> currency,
                    amount |-> amount, to |-> t.destination]
              ELSE txOut

\* the value a read of memory that is not the program's to read gives is undefined
CalculateTransferFee(t, undefined) ==
    IF IsFeeOutput(t) \/ (~IsPreConversion(t) /\ IsConversion(t)) THEN 0
    ELSE LET shift == 1 + (DEFAULT_PER_STEP_FEE * 2)
                              * (t.destination.size \div DESTINATION_BYTE_DIVISOR)
         IN IF shift < 31 THEN DEFAULT_PER_STEP_FEE * 2 ^ shift ELSE undefined

CalculateConversionFeeNoMin(inputAmount) ==
    GetLow64_(BigDiv_(BigMul_(ToBig_(inputAmount), BigOf(SUCCESS_FEE)), BigOf(SATOSHIDEN)))

\* CalculateConversionFee without its least fee
CalculateConversionFeeUnclamped(inputAmount) ==
    CalculateConversionFeeNoMin_(inputAmount)

CalculateConversionFee(inputAmount) ==
    Max(CalculateConversionFeeNoMin_(inputAmount), MIN_SUCCESS_FEE)

\* a + b is an amount: the sum of two signed 64-bit integers that does not overflow
SumFits(a, b) ==
    IF a >= 0 /\ b >= 0 THEN a <= INT64_MAX - b
    ELSE IF a < 0 /\ b < 0 THEN a >= (-INT64_MAX - 1) - b
    ELSE TRUE

\* a - b is an amount
DifferenceFits(a, b) == IF b = -INT64_MAX - 1 THEN a < 0 ELSE SumFits(a, -b)

\* lines 3712-3731: a sum or a difference of signed integers that overflows is
\* undefined, and the call then returns what the build makes of it

\* lines 3728-3730: newAmount is inputAmount + fee, and fee the fee of newAmount
AdditionalFeeDifference(inputAmount, undefined, newAmount, fee) ==
    IF ~DifferenceFits(newAmount, fee) THEN undefined
    ELSE IF ~DifferenceFits(inputAmount, newAmount - fee) THEN undefined
    ELSE IF ~SumFits(fee, inputAmount - (newAmount - fee)) THEN undefined
    ELSE fee + (inputAmount - (newAmount - fee))

\* lines 3726-3728: fee is the fee of the grossed-up amount
AdditionalFeeAgain(inputAmount, undefined, fee) ==
    IF ~SumFits(inputAmount, fee) THEN undefined
    ELSE AdditionalFeeDifference_(inputAmount, undefined, inputAmount + fee,
                                  CalculateConversionFee_(inputAmount + fee))

\* lines 3722-3726: newAmount is the grossed-up amount
AdditionalFeeOfGrossed(inputAmount, undefined, newAmount) ==
    IF ~DifferenceFits(newAmount, inputAmount) THEN undefined
    ELSE IF newAmount - inputAmount < MIN_SUCCESS_FEE
    THEN IF ~SumFits(inputAmount, MIN_SUCCESS_FEE) THEN undefined
         ELSE AdditionalFeeAgain_(inputAmount, undefined,
                                  CalculateConversionFee_(inputAmount + MIN_SUCCESS_FEE))
    ELSE AdditionalFeeAgain_(inputAmount, undefined, CalculateConversionFee_(newAmount))

CalculateAdditionalConversionFee(inputAmount, undefined) ==
    AdditionalFeeOfGrossed_(inputAmount, undefined,
        GetLow64_(BigDiv_(BigMul_(ToBig_(inputAmount), BigOf(SATOSHIDEN)),
                          BigOf(SATOSHIDEN - SUCCESS_FEE))))

---------------------------------------------------------------------------
(* The currencies ConnectedChains knows.  "vrsc" is the chain the node     *)
(* runs on, "src" another system, "usd" a token of this chain, "frac" a    *)
(* fractional currency of this chain with the reserves "vrsc" and "usd",   *)
(* "tok" a token that is no fractional currency; "none" is the id of no    *)
(* currency.                                                               *)

ASSETCHAINS_CHAINID == "vrsc"

RegistrationFee == 2 * UnitAmount

CCurrencyDefinition(id, systemID, options, currencies) ==
    [valid |-> TRUE, id |-> id, systemID |-> systemID, launchSystemID |-> "vrsc",
     gatewayID |-> "null", options |-> options, currencies |-> currencies,
     preAllocation |-> <<>>, gatewayConverterIssuance |-> 0, totalCarveOut |-> 0,
     currencyRegistrationFee |-> RegistrationFee]

VRSC == CCurrencyDefinition("vrsc", "vrsc", {}, <<>>)

SRC == CCurrencyDefinition("src", "src", {"PBAAS"}, <<>>)

USD == CCurrencyDefinition("usd", "vrsc", {"TOKEN"}, <<>>)

FRAC == CCurrencyDefinition("frac", "vrsc", {"TOKEN", "FRACTIONAL"}, <<"vrsc", "usd">>)

TOK == [CCurrencyDefinition("tok", "vrsc", {"TOKEN"}, <<"vrsc">>) EXCEPT
           !.preAllocation = <<[first |-> "null", second |-> UnitAmount]>>]

GetCachedCurrency(id) ==
    CASE id = "vrsc" -> VRSC
      [] id = "src" -> SRC
      [] id = "usd" -> USD
      [] id = "frac" -> FRAC
      [] id = "tok" -> TOK
      [] OTHER -> NoCurrencyDefinition

---------------------------------------------------------------------------
(* The call.  a holds its arguments and what it reads of its surroundings: *)
(* [systemSource, systemDest, importCurrencyDef, importCurrencyState,      *)
(* exportObjects, shuffle, undefined], shuffle the order std::shuffle      *)
(* gives in this build and undefined the value an undefined operation      *)
(* gives.  m holds the objects the call writes (the descriptor d and the   *)
(* caller's vOutputs, importedCurrency, gatewayDepositsIn,                 *)
(* spentCurrencyOut and newCurrencyState) and the locals of the call.      *)
(* status is "running", "failed" once the call has returned false, "done"  *)
(* once it has returned true and "aborted" after a tripped assert.         *)

SystemDestID(a) == a.systemDest.id

ImportCurrencyID(a) == a.importCurrencyDef.id

\* currencyIndexMap: 0 when the id is no currency of the import currency
CurrencyIndex(a, id) == IndexOf(a.importCurrencyDef.currencies, id)

SystemDestIdx(a) == CurrencyIndex(a, SystemDestID(a))

NativeSourceCurrencyID(a) ==
    IF DefIsGateway(a.systemSource) THEN a.systemSource.gatewayID
    ELSE a.systemSource.systemID

IsCrossSystemImport(a) == NativeSourceCurrencyID(a) # SystemDestID(a)

\* v[i] where the source reads the vector at a position that may lie outside it
At(v, i, undefined) == IF i \in 1..Len(v) THEN v[i] ELSE undefined

Running(m) == m.status = "running" /\ ~m.broke

\* the call reads or writes a vector at systemDestIdx: outside says whether it has
\* done so while systemDestIdx was -1
AtSystemDest(m, a) == [m EXCEPT !.outside = @ \/ SystemDestIdx(a) = 0]

Fail(m) == [m EXCEPT !.status = "failed"]

Abort(m) == [m EXCEPT !.status = "aborted"]

\* lines 2066-2144
ImportBegin(d, a, o) ==
    LET n == Len(a.importCurrencyDef.currencies)
        m == [status |-> "running", broke |-> FALSE, d |-> d,
              vOutputs |-> o.vOutputs, importedCurrency |-> o.importedCurrency,
              gatewayDepositsIn |-> o.gatewayDepositsIn,
              spentCurrencyOut |-> o.spentCurrencyOut,
              newCurrencyState |-> ClearForNextBlock(a.importCurrencyState),
              reserveConverted |-> CCurrencyValueMap,
              fractionalConverted |-> CCurrencyValueMap,
              crossConversions |-> Filled(n, Filled(n, 0)),
              burnedChangePrice |-> 0,
              preConvertedOutput |-> CCurrencyValueMap,
              preConvertedReserves |-> CCurrencyValueMap,
              preAllocTotal |-> 0,
              transferFees |-> CCurrencyValueMap, convertedFees |-> CCurrencyValueMap,
              liquidityFees |-> CCurrencyValueMap,
              carveOutSet |-> FALSE, totalCarveOut |-> 0,
              totalCarveOuts |-> CCurrencyValueMap,
              newPrices |-> <<>>, outside |-> FALSE,
              totalMinted |-> 0, exporterReward |-> 0,
              curTransfer |-> CReserveTransfer({}, "null", 0, "null", 0, "null",
                                              NoDestination),
              currencyDest |-> NoCurrencyDefinition, newOut |-> NullOut,
              explicitFees |-> 0, totalNativeFee |-> 0, feeConversions |-> <<>>]
    IN IF NativeSourceCurrencyID(a) # a.systemSource.id THEN Fail(m)
       ELSE [m EXCEPT !.d = [ResetInsFrom(d, 1) EXCEPT !.nativeIn = 0,
                                                       !.numTransfers = 0]]

\* the transfer the loop handles at position i: the fee transfer after the last one
CurTransfer(a, i) ==
    IF i = Len(a.exportObjects) + 1
    THEN CReserveTransfer({"VALID", "FEE_OUTPUT"}, ASSETCHAINS_CHAINID, 0,
                          ASSETCHAINS_CHAINID, 0, ASSETCHAINS_CHAINID, NoDestination)
    ELSE IF IsRefunding(a.importCurrencyState)
    THEN GetRefundTransfer(a.exportObjects[i])
    ELSE a.exportObjects[i]

\* TransferBegin with the test of IMPORT_TO_SOURCE made on the destination currency
TransferBeginByDestination(m, a, i) ==
    LET t == CurTransfer(a, i)
        currencyDest == IF ImportCurrencyID(a) = t.destCurrencyID
                        THEN a.importCurrencyDef
                        ELSE GetCachedCurrency(t.destCurrencyID)
    IN IF ~Running(m) THEN m
       ELSE IF (ImportCurrencyID(a) # t.destCurrencyID) = IsImportToSource(t) THEN Fail(m)
       ELSE IF ~currencyDest.valid THEN Fail(m)
       ELSE IF ~(i = Len(a.exportObjects) + 1 \/ t.valid) THEN Fail(m)
       ELSE [m EXCEPT !.curTransfer = t, !.currencyDest = currencyDest,
                      !.newOut = NullOut]

\* lines 2148-2195: what the loop does before it handles the transfer
TransferBegin(m, a, i) ==
    LET t == CurTransfer(a, i)
        currencyDest == IF ImportCurrencyID(a) = t.destCurrencyID
                        THEN a.importCurrencyDef
                        ELSE GetCachedCurrency(t.destCurrencyID)
    IN IF ~Running(m) THEN m
       ELSE IF (ImportCurrencyID(a) # t.currency) = IsImportToSource(t) THEN Fail(m)
       ELSE IF ~currencyDest.valid THEN Fail(m)
       ELSE IF ~(i = Len(a.exportObjects) + 1 \/ t.valid) THEN Fail(m)
       ELSE [m EXCEPT !.curTransfer = t, !.currencyDest = currencyDest,
                      !.newOut = NullOut]

---------------------------------------------------------------------------
(* Lines 2431-2622: the fees and the inputs of a transfer of the export.   *)

\* lines 2433-2493
TransferFees(m, a) ==
    LET t == m.curTransfer
        st == a.importCurrencyState
        curNextDest == GetCachedCurrency(t.destination.gatewayID)
        nextDestSysID == IF DefIsGateway(curNextDest) THEN curNextDest.gatewayID
                         ELSE curNextDest.systemID
        feeCurIdx == CurrencyIndex(a, t.feeCurrencyID)
        nextDestIdx == CurrencyIndex(a, nextDestSysID)
        passThroughFee == CalculateConversionFeeNoMin_(t.destination.fees) * 2
        reserveFromFrac ==
            NativeToReserveRaw_(
                ReserveToNativeRaw_(t.destination.fees - passThroughFee,
                                    st.conversionPrice[feeCurIdx]),
                st.viaConversionPrice[nextDestIdx])
        counted == [m EXCEPT !.d.numTransfers = @ + 1,
                             !.transferFees = MapAdd(@, t.feeCurrencyID, t.nFees),
                             !.explicitFees = t.nFees]
    IN IF ~Running(m) THEN m
       ELSE IF ~(t.destination.gatewayLeg /\ t.destination.fees # 0) THEN counted
       ELSE IF t.feeCurrencyID = nextDestSysID
       THEN [counted EXCEPT !.explicitFees = @ + t.destination.fees]
       ELSE IF ~DefIsFractional(a.importCurrencyDef) \/ nextDestIdx = 0 \/ feeCurIdx = 0
       THEN Fail(counted)
       ELSE [counted EXCEPT
               !.explicitFees = @ + t.destination.fees,
               !.curTransfer.destination.fees = reserveFromFrac,
               !.transferFees = MapAdd(@, t.feeCurrencyID, passThroughFee),
               !.reserveConverted =
                   MapAdd(@, t.feeCurrencyID, t.destination.fees - passThroughFee),
               !.crossConversions[feeCurIdx][nextDestIdx] =
                   @ + (t.destination.fees - passThroughFee),
               !.d = AddReserveOutConverted(
                         AddReserveOutput(
                             AddReserveInput(
                                 AddReserveConversionFees(@, t.feeCurrencyID,
                                                          passThroughFee),
                                 nextDestSysID, reserveFromFrac),
                             nextDestSysID, reserveFromFrac),
                         nextDestSysID, reserveFromFrac)]

\* lines 2495-2503
FeeInput(m, a) ==
    IF m.curTransfer.feeCurrencyID = SystemDestID(a)
    THEN [m EXCEPT !.d = AddNativeIn(@, m.explicitFees)]
    ELSE [m EXCEPT !.d = AddReserveInput(@, m.curTransfer.feeCurrencyID, m.explicitFees)]

\* lines 2506-2581: a transfer that comes from another system
CrossSystemInput(m, a) ==
    LET t == m.curTransfer
        systemSourceID == a.systemSource.id
        inputID == t.currency
        inputValue == t.amount
        ownFee == t.feeCurrencyID = t.currency
                  /\ DefIsFractional(a.importCurrencyDef)
                  /\ CurrencyIndex(a, t.feeCurrencyID) # 0
                  /\ IsLaunchConfirmed(a.importCurrencyState)
        totalCurrencyInput ==
            IF t.feeCurrencyID # systemSourceID /\ t.feeCurrencyID # SystemDestID(a)
            THEN inputValue + m.explicitFees ELSE inputValue
        inputDef == GetCachedCurrency(inputID)
        fees == IF t.feeCurrencyID = systemSourceID
                THEN [m EXCEPT !.importedCurrency =
                                   MapAdd(@, systemSourceID, m.explicitFees)]
                ELSE IF t.feeCurrencyID = SystemDestID(a)
                THEN [m EXCEPT !.gatewayDepositsIn =
                                   MapAdd(@, SystemDestID(a), m.explicitFees)]
                ELSE m
        imported == inputDef.systemID = systemSourceID
                    \/ (DefIsGateway(inputDef) /\ inputDef.gatewayID = systemSourceID)
    IN IF t.feeCurrencyID = systemSourceID /\ CurrencyIndex(a, systemSourceID) = 0
       THEN Fail(m)
       ELSE IF t.feeCurrencyID # systemSourceID /\ t.feeCurrencyID # SystemDestID(a)
               /\ ~ownFee
       THEN Fail(m)
       ELSE IF ~inputDef.valid \/ IsMint(t) THEN Fail(fees)
       ELSE IF totalCurrencyInput = 0 THEN fees
       ELSE [fees EXCEPT
               !.importedCurrency =
                   IF imported THEN MapAdd(@, inputID, totalCurrencyInput) ELSE @,
               !.gatewayDepositsIn =
                   IF imported THEN @ ELSE MapAdd(@, inputID, totalCurrencyInput),
               !.d = IF inputValue = 0 THEN @
                     ELSE IF inputID = SystemDestID(a) THEN AddNativeIn(@, inputValue)
                     ELSE AddReserveInput(@, inputID, inputValue)]

\* lines 2582-2621: a transfer of this system
SameSystemInput(m, a) ==
    LET t == m.curTransfer
        st == a.importCurrencyState
        feeEquivalent ==
            IF t.feeCurrencyID = SystemDestID(a) THEN t.nFees
            ELSE NativeToReserveRaw_(t.nFees, At(st.viaConversionPrice, SystemDestIdx(a),
                                                 a.undefined))
        read == IF t.feeCurrencyID = SystemDestID(a) THEN m ELSE AtSystemDest(m, a)
    IN IF t.feeCurrencyID # SystemDestID(a)
          /\ (~DefIsFractional(m.currencyDest) \/ CurrencyIndex(a, t.feeCurrencyID) = 0)
       THEN Fail(m)
       ELSE IF feeEquivalent < CalculateTransferFee(t, a.undefined) THEN Fail(read)
       ELSE IF t.currency = SystemDestID(a) /\ ~IsMint(t)
       THEN [read EXCEPT !.d = AddNativeIn(@, t.amount)]
       ELSE [read EXCEPT !.d = AddReserveInput(@, IF IsMint(t) THEN t.destCurrencyID
                                                  ELSE t.currency, t.amount)]

\* lines 2431-2622
TransferInputs(m, a) ==
    IF ~Running(m) THEN m
    ELSE IF IsCrossSystemImport(a) THEN CrossSystemInput_(FeeInput(m, a), a)
    ELSE SameSystemInput_(FeeInput(m, a), a)

---------------------------------------------------------------------------
(* Lines 2196-2430: the fee transfer that ends the loop.                   *)

\* lines 2220-2252: the outputs of the pre-allocations from position k on
PreAllocations(m, a, k) ==
    LET onePreAlloc == a.importCurrencyDef.preAllocation[k]
        importCurrencyID == ImportCurrencyID(a)
        to == IF onePreAlloc.first = "null" THEN m.curTransfer.destination
              ELSE [NoDestination EXCEPT !.type = "id"]
        counted == [m EXCEPT !.preAllocTotal = @ + onePreAlloc.second,
                             !.d = AddNativeOutConverted(@, importCurrencyID,
                                                         onePreAlloc.second)]
    IN IF k > Len(a.importCurrencyDef.preAllocation) THEN m
       ELSE IF importCurrencyID = SystemDestID(a)
       THEN PreAllocations_(
                [counted EXCEPT
                   !.vOutputs = Append(@, [nValue |-> onePreAlloc.second, kind |-> "pay",
                                           currency |-> "null", amount |-> 0,
                                           to |-> to]),
                   !.d = AddNativeOut(@, onePreAlloc.second)], a, k + 1)
       ELSE PreAllocations_(
                [counted EXCEPT
                   !.vOutputs = Append(@, [nValue |-> 0, kind |-> "token",
                                           currency |-> importCurrencyID,
                                           amount |-> onePreAlloc.second, to |-> to]),
                   !.d = AddReserveOutput(
                             AddReserveOutConverted(@, importCurrencyID,
                                                    onePreAlloc.second),
                             importCurrencyID, onePreAlloc.second)], a, k + 1)

\* lines 2200-2268
LaunchClear(m, a) ==
    LET def == a.importCurrencyDef
        st == a.importCurrencyState
        currencyRegistrationFee == a.systemSource.currencyRegistrationFee
        reserve == At(st.reserves, SystemDestIdx(a), a.undefined)
        paid == [m EXCEPT
                   !.transferFees = MapAdd(@, def.launchSystemID, currencyRegistrationFee),
                   !.importedCurrency =
                       IF def.launchSystemID # SystemDestID(a)
                       THEN MapAdd(@, def.launchSystemID, currencyRegistrationFee)
                       ELSE @,
                   !.d = IF def.launchSystemID # SystemDestID(a)
                         THEN AddReserveInput(@, def.launchSystemID,
                                              currencyRegistrationFee)
                         ELSE AddNativeIn(@, currencyRegistrationFee)]
        allocated == PreAllocations_(paid, a, 1)
    IN IF ~IsLaunchClear(st) THEN m
       ELSE IF ~IsLaunchConfirmed(st) THEN paid
       ELSE IF DefIsPBaaSChain(def) /\ def.gatewayConverterIssuance # 0
       THEN [allocated EXCEPT
               !.preAllocTotal = @ + def.gatewayConverterIssuance,
               !.d = AddNativeOut(
                         AddNativeOutConverted(@, ImportCurrencyID(a),
                                               def.gatewayConverterIssuance),
                         def.gatewayConverterIssuance)]
       ELSE IF DefIsPBaaSConverter(def) /\ def.systemID = SystemDestID(a)
       THEN IF reserve # 0
            THEN [AtSystemDest(allocated, a) EXCEPT
                    !.reserveConverted = MapPut(@, SystemDestID(a), reserve),
                    !.preConvertedReserves = MapPut(@, SystemDestID(a), reserve)]
            ELSE AtSystemDest(allocated, a)
       ELSE allocated

\* lines 2289-2350: the fee held in the currency id, when half of the fees go to the
\* currency and the rest is converted to the native currency
ConvertOneFee(m, a, id) ==
    LET st == a.importCurrencyState
        fee == m.transferFees[id].amt
        curIdx == CurrencyIndex(a, id)
        systemDestID == SystemDestID(a)
        systemDestIdx == SystemDestIdx(a)
        inFractional == ReserveToNativeRaw_(fee, IF IsLaunchCompleteMarker(st)
                                                 THEN st.conversionPrice[curIdx]
                                                 ELSE st.viaConversionPrice[curIdx])
        oneFeeValue ==
            IF systemDestID = ImportCurrencyID(a) THEN inFractional
            ELSE NativeToReserveRaw_(inFractional,
                                     At(st.viaConversionPrice, systemDestIdx, a.undefined))
        convertedFractionalFee ==
            NativeToReserveRaw_(fee, At(st.conversionPrice, systemDestIdx, a.undefined))
    IN IF ~m.transferFees[id].has THEN m
       ELSE IF id # ImportCurrencyID(a) /\ id # systemDestID
       THEN IF curIdx = 0 THEN Fail(m)
            ELSE IF systemDestIdx = 0 THEN Abort(AtSystemDest(m, a))
            ELSE [m EXCEPT
                    !.reserveConverted = MapAdd(@, id, fee),
                    !.crossConversions[curIdx][systemDestIdx] = @ + fee,
                    !.totalNativeFee = @ + oneFeeValue,
                    !.d = IF systemDestID = ImportCurrencyID(a)
                          THEN AddNativeOutConverted(@, id, oneFeeValue)
                          ELSE AddReserveOutConverted(AddNativeIn(@, oneFeeValue),
                                                      systemDestID, oneFeeValue),
                    !.feeConversions = Append(@, [from |-> id, fromAmount |-> fee,
                                                  to |-> systemDestID,
                                                  toAmount |-> oneFeeValue])]
       ELSE IF id = systemDestID
       THEN [m EXCEPT !.totalNativeFee = @ + fee]
       ELSE [AtSystemDest(m, a) EXCEPT
               !.fractionalConverted = MapAdd(@, systemDestID, fee),
               !.totalNativeFee = @ + convertedFractionalFee,
               !.d = AddReserveOutConverted(
                         AddNativeIn(AddNativeOutConverted(@, id, 0 - fee),
                                     convertedFractionalFee),
                         systemDestID, convertedFractionalFee),
               !.feeConversions = Append(@, [from |-> id, fromAmount |-> fee,
                                             to |-> systemDestID,
                                             toAmount |-> convertedFractionalFee])]

\* the loop of lines 2289-2350 from position i of the keys on
ConvertFees(m, a, i) ==
    IF i > Len(CurrencyIds) \/ m.status # "running" THEN m
    ELSE ConvertFees_(ConvertOneFee_(m, a, CurrencyIds[i]), a, i + 1)

RECURSIVE ConvertedFees(_, _, _)
\* lines 2352-2361
ConvertedFees(fees, feeConversions, k) ==
    IF k > Len(feeConversions) THEN fees
    ELSE ConvertedFees(MapAdd(MapAdd(fees, feeConversions[k].from,
                                     0 - feeConversions[k].fromAmount),
                              feeConversions[k].to, feeConversions[k].toAmount),
                       feeConversions, k + 1)

\* lines 2395-2414: the fee held in the currency id, when fees are not converted
KeepOneFee(m, a, id) ==
    LET fee == m.transferFees[id].amt
        idx == CurrencyIndex(a, id)
    IN IF ~m.transferFees[id].has \/ fee = 0 THEN m
       ELSE IF id # SystemDestID(a)
       THEN [m EXCEPT !.newCurrencyState.fees =
                          IF idx # 0 THEN [@ EXCEPT ![idx] = @ + fee] ELSE @,
                      !.d = AddReserveOutput(@, id, fee)]
       ELSE [m EXCEPT !.totalNativeFee = @ + fee]

RECURSIVE KeepFees(_, _, _)
KeepFees(m, a, i) ==
    IF i > Len(CurrencyIds) THEN m ELSE KeepFees(KeepOneFee(m, a, CurrencyIds[i]), a, i + 1)

\* the fee of an export of numIn transfers that goes to the exporter's pool
CalculateExportFeeRaw(fee, numIn) ==
    GetLow64_(BigDiv_(BigMul_(ToBig_(fee),
                             ToBig_(SATOSHIDEN \div 2
                                    + ((SATOSHIDEN \div 4) \div 50) * (numIn - 1))),
                     BigOf(SATOSHIDEN)))

\* the share of the export fee the exporter is paid directly
ExportReward(exportFee) ==
    LET individualExportFee ==
            GetLow64_(BigDiv_(BigMul_(ToBig_(exportFee), BigOf(SATOSHIDEN \div 10)),
                             BigOf(SATOSHIDEN)))
    IN IF individualExportFee < MIN_FEES_BEFORE_FEEPOOL
       THEN IF exportFee > MIN_FEES_BEFORE_FEEPOOL THEN MIN_FEES_BEFORE_FEEPOOL
            ELSE exportFee
       ELSE individualExportFee

\* lines 2274-2416
FeeConversion(m, a) ==
    LET st == a.importCurrencyState
        liquidityFees == MapDivide(m.transferFees, 2)
        read == IF IsLaunchConfirmed(st) /\ DefIsFractional(a.importCurrencyDef)
                THEN AtSystemDest(m, a)
                ELSE m
        halved == [read EXCEPT !.liquidityFees = liquidityFees,
                               !.transferFees = MapMinus(@, liquidityFees),
                               !.totalNativeFee = 0, !.feeConversions = <<>>]
        converted == ConvertFees_(halved, a, 1)
        kept == KeepFees([read EXCEPT !.totalNativeFee = 0], a, 1)
    IN IF IsLaunchConfirmed(st) /\ DefIsFractional(a.importCurrencyDef)
          /\ At(st.reserves, SystemDestIdx(a), a.undefined) # 0
       THEN IF converted.status # "running" THEN converted
            ELSE [converted EXCEPT
                    !.convertedFees =
                        IF Len(converted.feeConversions) > 0
                        THEN CanonicalMap(ConvertedFees(converted.transferFees,
                                                        converted.feeConversions, 1))
                        ELSE converted.transferFees]
       ELSE [kept EXCEPT !.convertedFees = kept.transferFees]

\* lines 2418-2429
ExportFee(m, a) ==
    LET exporterReward ==
            ExportReward_(CalculateExportFeeRaw_(m.totalNativeFee, m.d.numTransfers))
        paid == [m EXCEPT !.exporterReward = exporterReward,
                          !.d = AddNativeOut(@, m.totalNativeFee),
                          !.newCurrencyState.nativeFees = @ + m.totalNativeFee]
    IN IF m.status # "running" THEN m
       ELSE IF m.curTransfer.destination.type = "invalid" \/ exporterReward = 0
       THEN [paid EXCEPT !.broke = TRUE]
       ELSE [paid EXCEPT
               !.curTransfer =
                   CReserveTransfer({"VALID", "FEE_OUTPUT"}, SystemDestID(a),
                                    exporterReward, SystemDestID(a), 0, SystemDestID(a),
                                    m.curTransfer.destination)]

\* lines 2196-2430
FeeTransfer(m, a) ==
    IF ~Running(m) THEN m ELSE ExportFee_(FeeConversion_(LaunchClear_(m, a), a), a)

---------------------------------------------------------------------------
(* Lines 2624-2969: what the transfer does.                                *)

PayOut(nValue, to) ==
    [nValue |-> nValue, kind |-> "pay", currency |-> "null", amount |-> 0, to |-> to]

TokenOut(currency, amount, to) ==
    [nValue |-> 0, kind |-> "token", currency |-> currency, amount |-> amount, to |-> to]

\* CIdentityID(importCurrencyID) as a destination
CurrencyIdentity == [NoDestination EXCEPT !.type = "id"]

\* lines 2686-2747: a pre-conversion of valueOut that gives newCurrencyConverted
PreConverted(m, a, valueOut, newCurrencyConverted) ==
    LET t == m.curTransfer
        isFractional == DefIsFractional(a.importCurrencyDef)
        confirmed == IsLaunchConfirmed(a.importCurrencyState)
        carved == m.totalCarveOut > 0 /\ m.totalCarveOut < SATOSHIDEN
        newReserveIn == IF carved
                        THEN NativeToReserveRaw_(valueOut, SATOSHIDEN - m.totalCarveOut)
                        ELSE valueOut
        kept == [m EXCEPT
                   !.reserveConverted = MapAdd(@, t.currency, valueOut),
                   !.preConvertedReserves = MapAdd(@, t.currency, valueOut),
                   !.totalCarveOuts =
                       IF carved THEN MapAdd(@, t.currency, valueOut - newReserveIn)
                       ELSE @,
                   !.preConvertedOutput = MapAdd(@, t.currency, newCurrencyConverted),
                   !.vOutputs =
                       IF isFractional THEN @
                       ELSE IF t.currency # SystemDestID(a)
                       THEN Append(@, TokenOut(t.currency, newReserveIn, CurrencyIdentity))
                       ELSE Append(@, PayOut(newReserveIn, CurrencyIdentity)),
                   !.d = AddNativeOutConverted(
                             AddNativeOutConverted(
                                 IF isFractional THEN @
                                 ELSE IF t.currency # SystemDestID(a)
                                 THEN AddReserveOutput(@, t.currency, newReserveIn)
                                 ELSE AddNativeOut(@, newReserveIn),
                                 t.currency, newCurrencyConverted),
                             t.destCurrencyID, newCurrencyConverted)]
    IN IF t.destCurrencyID = SystemDestID(a)
       THEN [kept EXCEPT
               !.d = IF confirmed THEN AddNativeOut(@, newCurrencyConverted)
                     ELSE AddNativeIn(AddNativeOut(@, newCurrencyConverted),
                                      newCurrencyConverted),
               !.newOut = GetTxOut(t, "null", 0, newCurrencyConverted, m.newOut)]
       ELSE [kept EXCEPT
               !.d = IF confirmed
                     THEN AddReserveOutput(
                              AddReserveOutConverted(@, t.destCurrencyID,
                                                     newCurrencyConverted),
                              t.destCurrencyID, newCurrencyConverted)
                     ELSE AddReserveInput(
                              AddReserveOutput(
                                  AddReserveOutConverted(@, t.destCurrencyID,
                                                         newCurrencyConverted),
                                  t.destCurrencyID, newCurrencyConverted),
                              t.destCurrencyID, newCurrencyConverted),
               !.newOut = GetTxOut(t, t.destCurrencyID, newCurrencyConverted, 0,
                                   m.newOut)]

\* PreConversion without the test of the launch-complete marker
PreConversionAfterLaunch(m, a) ==
    LET t == m.curTransfer
        def == a.importCurrencyDef
        st == a.importCurrencyState
        curIdx == CurrencyIndex(a, t.currency)
        preConversionFee == Min(CalculateConversionFee_(t.amount), t.amount)
        raw == ReserveToNativeRaw_(t.amount - preConversionFee, st.conversionPrice[curIdx])
        charged == [m EXCEPT
                      !.d = AddReserveConversionFees(@, t.currency, preConversionFee),
                      !.transferFees = MapAdd(@, t.currency, preConversionFee),
                      !.totalCarveOut = IF m.carveOutSet THEN @ ELSE def.totalCarveOut,
                      !.carveOutSet = TRUE]
    IN IF def.launchSystemID # a.systemSource.id THEN Fail(m)
       ELSE IF ~DefIsFractional(def) /\ t.currency # def.launchSystemID THEN Fail(m)
       ELSE IF curIdx = 0 THEN Fail(m)
       ELSE IF raw = -1 \/ raw = 0 THEN charged
       ELSE PreConverted_(charged, a, t.amount - preConversionFee, raw)

\* lines 2624-2749
PreConversion(m, a) ==
    LET t == m.curTransfer
        def == a.importCurrencyDef
        st == a.importCurrencyState
        curIdx == CurrencyIndex(a, t.currency)
        preConversionFee == Min(CalculateConversionFee_(t.amount), t.amount)
        raw == ReserveToNativeRaw_(t.amount - preConversionFee, st.conversionPrice[curIdx])
        charged == [m EXCEPT
                      !.d = AddReserveConversionFees(@, t.currency, preConversionFee),
                      !.transferFees = MapAdd(@, t.currency, preConversionFee),
                      !.totalCarveOut = IF m.carveOutSet THEN @ ELSE def.totalCarveOut,
                      !.carveOutSet = TRUE]
    IN IF def.launchSystemID # a.systemSource.id THEN Fail(m)
       ELSE IF IsLaunchCompleteMarker(st) THEN Fail(m)
       ELSE IF ~DefIsFractional(def) /\ t.currency # def.launchSystemID THEN Fail(m)
       ELSE IF curIdx = 0 THEN Fail(m)
       ELSE IF raw = -1 \/ raw = 0 THEN charged
       ELSE PreConverted_(charged, a, t.amount - preConversionFee, raw)

\* lines 2836-2904: a conversion of valueOut that gives newCurrencyConverted of the
\* currency outputCurrencyID
Converted(m, a, toFractional, valueOut, newCurrencyConverted, outputCurrencyID) ==
    LET t == m.curTransfer
        systemDestID == SystemDestID(a)
        newOut == IF outputCurrencyID = systemDestID
                  THEN GetTxOut(t, "null", 0, newCurrencyConverted, m.newOut)
                  ELSE GetTxOut(t, outputCurrencyID, newCurrencyConverted, 0, m.newOut)
    IN IF toFractional /\ ~IsReserveToReserve(t)
       THEN [m EXCEPT
               !.newOut = newOut,
               !.d = IF t.destCurrencyID = systemDestID
                     THEN AddNativeIn(
                              AddNativeOut(
                                  AddNativeOutConverted(
                                      AddNativeOutConverted(@, t.currency,
                                                            newCurrencyConverted),
                                      t.destCurrencyID, newCurrencyConverted),
                                  newCurrencyConverted),
                              newCurrencyConverted)
                     ELSE AddReserveOutput(
                              AddReserveInput(
                                  AddReserveOutConverted(
                                      AddNativeOutConverted(
                                          AddNativeOutConverted(@, t.currency,
                                                                newCurrencyConverted),
                                          t.destCurrencyID, newCurrencyConverted),
                                      t.destCurrencyID, newCurrencyConverted),
                                  t.destCurrencyID, newCurrencyConverted),
                              t.destCurrencyID, newCurrencyConverted)]
       ELSE [m EXCEPT
               !.newOut = newOut,
               !.d = IF IsReserveToReserve(t)
                     THEN IF outputCurrencyID = systemDestID
                          THEN AddNativeOut(
                                   AddReserveOutConverted(@, outputCurrencyID,
                                                          newCurrencyConverted),
                                   newCurrencyConverted)
                          ELSE AddReserveOutput(
                                   AddReserveOutConverted(@, outputCurrencyID,
                                                          newCurrencyConverted),
                                   outputCurrencyID, newCurrencyConverted)
                     ELSE AddNativeOutConverted(
                              IF outputCurrencyID = systemDestID
                              THEN AddNativeOut(
                                       AddReserveOutConverted(@, outputCurrencyID,
                                                              newCurrencyConverted),
                                       newCurrencyConverted)
                              ELSE AddReserveOutput(
                                       AddReserveOutConverted(@, outputCurrencyID,
                                                              newCurrencyConverted),
                                       outputCurrencyID, newCurrencyConverted),
                              t.currency, 0 - valueOut)]

\* lines 2805-2850: the fee of the conversion is oneConversionFee
ConversionOf(m, a, toFractional, reserveIdx, oneConversionFee) ==
    LET t == m.curTransfer
        st == a.importCurrencyState
        valueOut == t.amount - oneConversionFee
        first == IF toFractional
                 THEN ReserveToNativeRaw_(valueOut, st.conversionPrice[reserveIdx])
                 ELSE NativeToReserveRaw_(valueOut, st.conversionPrice[reserveIdx])
        outputCurrencyIdx == CurrencyIndex(a, t.secondReserveID)
        charged == [m EXCEPT
                      !.d = IF IsFeeOutput(t) THEN @
                            ELSE AddReserveConversionFees(@, t.currency, oneConversionFee),
                      !.transferFees = IF IsFeeOutput(t) THEN @
                                       ELSE MapAdd(@, t.currency, oneConversionFee),
                      !.reserveConverted = IF toFractional
                                           THEN MapAdd(@, t.currency, valueOut) ELSE @,
                      !.fractionalConverted =
                          IF toFractional THEN @
                          ELSE MapAdd(@, t.destCurrencyID, valueOut)]
    IN IF first = 0 THEN charged
       ELSE IF IsReserveToReserve(t)
       THEN Converted_([charged EXCEPT
                          !.crossConversions[reserveIdx][outputCurrencyIdx] =
                              @ + valueOut],
                       a, toFractional, valueOut,
                       NativeToReserveRaw_(first, st.viaConversionPrice[outputCurrencyIdx]),
                       t.secondReserveID)
       ELSE Converted_(charged, a, toFractional, valueOut, first, t.destCurrencyID)

\* lines 2750-2906
Conversion(m, a) ==
    LET t == m.curTransfer
        importCurrencyID == ImportCurrencyID(a)
        toFractional == importCurrencyID = t.destCurrencyID
                        /\ DefIsFractional(m.currencyDest)
                        /\ CurrencyIndex(a, t.currency) # 0
        sourceCurrency == GetCachedCurrency(t.currency)
        fractionalCurrency == IF toFractional THEN m.currencyDest ELSE sourceCurrency
        reserveCurrency == IF toFractional THEN sourceCurrency ELSE m.currencyDest
        reserveIdx == CurrencyIndex(a, reserveCurrency.id)
        fee == CalculateConversionFee_(t.amount)
        oneConversionFee == IF IsFeeOutput(t) THEN 0
                            ELSE Min(IF IsReserveToReserve(t) THEN fee * 2 ELSE fee,
                                     t.amount)
    IN IF t.currency = t.destCurrencyID THEN Fail(m)
       ELSE IF ~sourceCurrency.valid THEN Fail(m)
       ELSE IF ~(toFractional
                 \/ (importCurrencyID = t.currency /\ DefIsFractional(sourceCurrency)
                     /\ CurrencyIndex(a, t.destCurrencyID) # 0))
       THEN Fail(m)
       ELSE IF IsReserveToReserve(t)
               /\ (~toFractional \/ t.secondReserveID = "null"
                   \/ t.secondReserveID = t.currency
                   \/ CurrencyIndex(a, t.secondReserveID) = 0)
       THEN Fail(m)
       ELSE IF ~(fractionalCurrency.valid /\ reserveCurrency.valid
                 /\ At(fractionalCurrency.currencies, reserveIdx, "null")
                        = reserveCurrency.id)
       THEN Abort(m)
       ELSE ConversionOf_(m, a, toFractional, reserveIdx, oneConversionFee)

\* lines 2907-2960
PlainTransfer(m, a) ==
    LET t == m.curTransfer
        importCurrencyID == ImportCurrencyID(a)
        systemDestID == SystemDestID(a)
        paid == GetTxOut(t, "null", 0, t.amount, m.newOut)
        minted == IsMint(t) /\ t.destCurrencyID = importCurrencyID
    IN IF IsBurn(t)
       THEN IF t.currency # importCurrencyID
               \/ ~(DefIsFractional(a.importCurrencyDef) \/ DefIsToken(a.importCurrencyDef))
            THEN Fail(m)
            ELSE IF "VALID" \in t.flags /\ IsBurnChangeWeight(t) THEN Fail(m)
            ELSE [m EXCEPT !.d = AddNativeOutConverted(@, t.currency, 0 - t.amount),
                           !.burnedChangePrice = @ + t.amount]
       ELSE IF systemDestID = t.destCurrencyID
       THEN IF paid.nValue = -1
            THEN Fail([m EXCEPT !.d = AddNativeOut(@, t.amount), !.newOut = paid])
            ELSE [m EXCEPT !.d = AddNativeOut(@, t.amount), !.newOut = paid]
       ELSE [m EXCEPT
               !.totalMinted = IF minted THEN @ + t.amount ELSE @,
               !.d = AddReserveOutput(
                         IF minted
                         THEN AddReserveOutConverted(
                                  AddNativeOutConverted(@, t.destCurrencyID, t.amount),
                                  t.destCurrencyID, t.amount)
                         ELSE @,
                         t.destCurrencyID, t.amount),
               !.newOut = GetTxOut(t, t.destCurrencyID, t.amount, 0, m.newOut)]

\* lines 2624-2969
TransferOutput(m, a) ==
    LET done == IF IsPreConversion(m.curTransfer) THEN PreConversion_(m, a)
                ELSE IF IsConversion(m.curTransfer) THEN Conversion_(m, a)
                ELSE PlainTransfer_(m, a)
    IN IF ~Running(m) THEN m
       ELSE IF done.status # "running" \/ done.newOut.nValue < 0 THEN done
       ELSE [done EXCEPT !.vOutputs = Append(@, done.newOut)]

\* lines 2146-2977: the loop from position i on
Transfers(m, a, i) ==
    IF i > Len(a.exportObjects) + 1 \/ ~Running(m) THEN m
    ELSE IF i = Len(a.exportObjects) + 1
    THEN Transfers_(TransferOutput_(FeeTransfer_(TransferBegin_(m, a, i), a), a), a, i + 1)
    ELSE Transfers_(TransferOutput_(TransferInputs_(TransferFees_(TransferBegin_(m, a, i),
                                                                  a), a), a), a, i + 1)

---------------------------------------------------------------------------
(* Lines 2979-3264: what the call does after the loop.                     *)

\* the vector of the first n values of the function f
RECURSIVE SeqOf(_, _)
SeqOf(f, n) == IF n = 0 THEN <<>> ELSE Append(SeqOf(f, n - 1), f[n])

RemoveAt(v, i) == SubSeq(v, 1, i - 1) \o SubSeq(v, i + 1, Len(v))

InsertAt(v, i, x) == SubSeq(v, 1, i - 1) \o <<x>> \o SubSeq(v, i, Len(v))

\* lines 3652-3666: the reserve map holds every currency of the state once
RevertReservesAndSupply(cs) ==
    LET n == Len(cs.currencies)
    IN ClearForNextBlock(
           [cs EXCEPT !.reserves =
                          SeqOf([i \in 1..n |->
                                    cs.reserves[i] + (cs.reserveOut[i] - cs.reserveIn[i])],
                                n),
                      !.supply = cs.supply + SumSeq(cs.nativeIn)
                                 - (Max(cs.nativeOut, cs.emitted) - cs.preConvertedOut)])

ReserveOutConvertedMap(d, nativeID) ==
    LedgerMapFrom(d, "reserveOutConverted",
                  IF nativeID = "null" THEN ASSETCHAINS_CHAINID ELSE nativeID,
                  Len(CurrencyIds))

NativeOutConvertedMap(d) == LedgerMapFrom(d, "nativeOutConverted", "", Len(CurrencyIds))

ReserveConversionFeesMap(d) ==
    LedgerMapFrom(d, "reserveConversionFees", "", Len(CurrencyIds))

RECURSIVE CarveOutOutputs(_, _, _, _)
\* lines 2982-2999 from position i of the keys on
CarveOutOutputs(m, a, totalCarveOuts, i) ==
    IF i > Len(CurrencyIds) THEN m
    ELSE LET id == CurrencyIds[i]
             amt == totalCarveOuts[id].amt
         IN CarveOutOutputs(
                IF ~totalCarveOuts[id].has THEN m
                ELSE IF id = SystemDestID(a)
                THEN [m EXCEPT !.d = AddNativeOut(@, amt),
                               !.vOutputs = Append(@, PayOut(amt, CurrencyIdentity))]
                ELSE [m EXCEPT !.d = AddReserveOutput(@, id, amt),
                               !.vOutputs = Append(@, TokenOut(id, amt, CurrencyIdentity))],
                a, totalCarveOuts, i + 1)

\* lines 2979-3019
CarveOutsAndBurn(m, a) ==
    LET importCurrencyID == ImportCurrencyID(a)
        carved ==
            CarveOutOutputs([m EXCEPT !.totalCarveOuts = CanonicalMap(@)], a,
                            CanonicalMap(m.totalCarveOuts), 1)
        burnedChangePrice ==
            m.burnedChangePrice + (IF m.liquidityFees[importCurrencyID].has
                                   THEN m.liquidityFees[importCurrencyID].amt ELSE 0)
        burned == [carved EXCEPT !.burnedChangePrice = burnedChangePrice,
                                 !.liquidityFees[importCurrencyID] = NoValue]
    IN IF m.status # "running" THEN m
       ELSE IF burnedChangePrice <= 0 THEN burned
       ELSE IF ~(burnedChangePrice <= m.newCurrencyState.supply) THEN Fail(burned)
       ELSE [burned EXCEPT !.newCurrencyState.supply = @ - burnedChangePrice]

\* lines 3042-3056 with the returned prices as conversion prices whatever the state of
\* the launch
NewPricesAlways(cs, newPrices, viaPrices, systemDestIdx) ==
    [cs EXCEPT !.viaConversionPrice = viaPrices, !.conversionPrice = newPrices]

\* lines 3042-3056: the prices the conversion gave go into the new state
NewPrices(cs, newPrices, viaPrices, systemDestIdx) ==
    IF ~IsLaunchCompleteMarker(cs)
    THEN [cs EXCEPT !.viaConversionPrice =
                        SeqOf([i \in 1..Len(newPrices) |->
                                  IF i # systemDestIdx THEN newPrices[i] ELSE viaPrices[i]],
                              Len(newPrices))]
    ELSE [cs EXCEPT !.viaConversionPrice = viaPrices, !.conversionPrice = newPrices]

\* lines 3021-3057
ImportConversion(m, a) ==
    LET st == a.importCurrencyState
        adjustedReserveConverted == MapMinus(m.reserveConverted, m.preConvertedReserves)
        r == ConvertAmounts_(
                 [st |-> AsCurrencyState(st),
                  inputReserves |-> AsCurrencyVector(adjustedReserveConverted,
                                                     st.currencies),
                  inputFractional |-> AsCurrencyVector(m.fractionalConverted,
                                                       st.currencies),
                  newState |-> InvalidCurrencyState,
                  cross |-> CrossConversions(m.crossConversions),
                  viaPrices |-> m.newCurrencyState.viaConversionPrice]).ret
    IN IF m.status # "running" THEN m
       ELSE IF ~(DefIsFractional(a.importCurrencyDef)
                 /\ IsLaunchConfirmed(m.newCurrencyState)
                 /\ (MapSize(CanonicalMap(adjustedReserveConverted)) > 0
                     \/ MapSize(CanonicalMap(m.fractionalConverted)) > 0))
       THEN m
       ELSE IF r.outcome = "abort" THEN Abort(m)
       ELSE IF ~r.newState.valid
       THEN Fail([m EXCEPT !.newCurrencyState.viaConversionPrice = r.viaPrices])
       ELSE [m EXCEPT !.newCurrencyState =
                          NewPrices(@, r.rates, r.viaPrices, SystemDestIdx(a)),
                      !.newPrices = r.rates]

\* lines 3059-3092
Flows(m, a) ==
    LET cs == m.newCurrencyState
        n == Len(cs.currencies)
        isFractional == DefIsFractional(a.importCurrencyDef)
        confirmed == IsLaunchConfirmed(cs)
        vLiquidityFees == AsCurrencyVector(m.liquidityFees, cs.currencies)
        vResConverted ==
            AsCurrencyVector(IF confirmed
                             THEN MapMinus(m.reserveConverted, m.preConvertedReserves)
                             ELSE m.preConvertedReserves, cs.currencies)
        vResOutConverted ==
            AsCurrencyVector(ReserveOutConvertedMap(m.d, ImportCurrencyID(a)),
                             cs.currencies)
        vFracConverted == AsCurrencyVector(m.fractionalConverted, cs.currencies)
        vFracOutConverted ==
            AsCurrencyVector(IF confirmed
                             THEN MapMinus(NativeOutConvertedMap(m.d), m.preConvertedOutput)
                             ELSE m.preConvertedOutput, cs.currencies)
    IN IF m.status # "running" THEN m
       ELSE IF confirmed
       THEN [m EXCEPT
               !.newCurrencyState =
                   [@ EXCEPT
                      !.reserveIn = VectorSum(vResConverted, vLiquidityFees, n),
                      !.reserveOut = vResOutConverted,
                      !.reserves =
                          SeqOf([i \in 1..n |->
                                    cs.reserves[i]
                                    + (IF isFractional
                                       THEN (vResConverted[i] - vResOutConverted[i])
                                            + vLiquidityFees[i]
                                       ELSE 0)], n),
                      !.nativeIn = vFracConverted,
                      !.supply = @ + SumSeq(vFracOutConverted) - SumSeq(vFracConverted)]]
       ELSE [m EXCEPT
               !.newCurrencyState =
                   [@ EXCEPT
                      !.reserveIn = vResConverted,
                      !.reserves =
                          SeqOf([i \in 1..n |->
                                    cs.reserves[i]
                                    + (IF isFractional
                                       THEN vResConverted[i] - vResOutConverted[i]
                                       ELSE 0)], n),
                      !.supply = IF isFractional THEN @
                                 ELSE @ + SumSeq(vFracOutConverted)
                                        - SumSeq(vFracConverted)]]

\* lines 3107-3117: the state before the fees came in
FeesUndone(cs, a, transferFees, i) ==
    LET id == CurrencyIds[i]
        idx == CurrencyIndex(a, id)
        \* currencyIndexMap[systemID] is the first position when the map has no such key
        systemIdx == Max(CurrencyIndex(a, a.importCurrencyDef.systemID), 1)
    IN IF i > Len(CurrencyIds)
       THEN IF Len(cs.reserves) = 0 THEN cs
            ELSE [cs EXCEPT !.reserves[systemIdx] =
                                @ + (cs.nativeFees
                                     - transferFees[a.importCurrencyDef.systemID].amt)]
       ELSE FeesUndone_(IF transferFees[id].has /\ id # a.importCurrencyDef.systemID
                           /\ idx # 0
                        THEN [cs EXCEPT !.reserves[idx] = @ - transferFees[id].amt]
                        ELSE cs, a, transferFees, i + 1)

\* lines 3126-3140 and 3164-3178: the state without the native currency, whose weight
\* goes to the other reserves
WithoutSystem(cs, systemDestIdx) ==
    LET n == Len(cs.weights) - 1
        sysWeight == cs.weights[systemDestIdx]
        others == RemoveAt(cs.weights, systemDestIdx)
    IN [cs EXCEPT
          !.currencies = RemoveAt(@, systemDestIdx),
          !.reserves = RemoveAt(@, systemDestIdx),
          !.weights = SeqOf([i \in 1..n |->
                                others[i] + Quotient(sysWeight, n)
                                + (IF i <= sysWeight % n THEN 1 ELSE 0)], n)]

\* the prices of lines 3119-3144 and 3158-3182, systemDestPrice the price that stands
\* for the native currency
LaunchPrices(temp, a, systemDestPrice) ==
    IF a.importCurrencyDef.launchSystemID = a.importCurrencyDef.systemID
    THEN PricesInReserve_(temp)
    ELSE InsertAt(PricesInReserve_(WithoutSystem(temp, SystemDestIdx(a))),
                  SystemDestIdx(a), systemDestPrice)

\* lines 3096-3184
LaunchState(m, a) ==
    LET cs == m.newCurrencyState
        def == a.importCurrencyDef
        separate == def.launchSystemID # def.systemID
        temp == FeesUndone_(cs, a, m.transferFees, 1)
        viaPrices == PricesInReserve_(cs)
    IN IF m.status # "running" THEN m
       ELSE IF ~DefIsFractional(def) \/ IsLaunchCompleteMarker(cs) THEN m
       ELSE IF separate /\ (SystemDestIdx(a) = 0 \/ Len(cs.weights) < 2)
               /\ ((IsLaunchConfirmed(cs) /\ IsLaunchClear(cs))
                   \/ (~IsLaunchConfirmed(cs) /\ IsPrelaunch(a.importCurrencyState)
                       /\ ~IsRefunding(a.importCurrencyState)))
       THEN Abort(AtSystemDest(m, a))
       ELSE IF IsLaunchConfirmed(cs)
       THEN IF IsLaunchClear(cs)
            THEN [m EXCEPT !.newCurrencyState.conversionPrice =
                               LaunchPrices(temp, a,
                                            PriceInReserve_(temp, SystemDestIdx(a)))]
            ELSE [m EXCEPT !.newCurrencyState.conversionPrice =
                               a.importCurrencyState.conversionPrice]
       ELSE IF IsPrelaunch(a.importCurrencyState) /\ ~IsRefunding(a.importCurrencyState)
       THEN [m EXCEPT !.newCurrencyState.viaConversionPrice = viaPrices,
                      !.newCurrencyState.conversionPrice =
                          LaunchPrices([cs EXCEPT !.viaConversionPrice = viaPrices], a,
                                       viaPrices[SystemDestIdx(a)])]
       ELSE m

\* lines 3186-3195
Emission(m, a) ==
    LET counted == [m EXCEPT !.newCurrencyState.preConvertedOut =
                                 SumSeq(AsCurrencyVector(m.preConvertedOutput,
                                                         CurrencyIds))]
    IN IF m.status # "running" THEN m
       ELSE IF m.totalMinted # 0 \/ m.preAllocTotal # 0
       THEN [counted EXCEPT !.newCurrencyState =
                                UpdateWithEmission_(@, m.totalMinted + m.preAllocTotal,
                                                    a.shuffle)]
       ELSE counted

\* lines 3213-3240 from position i of the keys on: r is [ReserveInputs,
\* spentCurrencyOut, systemOutConverted, nativeOut], nativeOut that of the new state
InOuts(d, a, r, i) ==
    LET id == CurrencyIds[i]
        one == d.currencies[id]
        importCurrencyID == ImportCurrencyID(a)
    IN IF i > Len(CurrencyIds) THEN r
       ELSE IF ~one.has THEN InOuts_(d, a, r, i + 1)
       ELSE IF id = importCurrencyID
       THEN InOuts_(d, a,
                    [r EXCEPT !.nativeOut = one.nativeOutConverted,
                              !.systemOutConverted =
                                  IF id = SystemDestID(a) THEN @ + one.nativeOutConverted
                                  ELSE @], i + 1)
       ELSE InOuts_(d, a,
                    [r EXCEPT
                       !.ReserveInputs =
                           IF one.reserveIn # 0 \/ one.reserveOutConverted # 0
                           THEN MapPut(MapAdd(@, importCurrencyID, one.nativeOutConverted),
                                       id, one.reserveIn + one.reserveOutConverted)
                           ELSE MapAdd(@, importCurrencyID, one.nativeOutConverted),
                       !.systemOutConverted =
                           IF id = SystemDestID(a) THEN @ + one.reserveOutConverted ELSE @,
                       !.spentCurrencyOut =
                           IF one.reserveOut # 0 THEN MapPut(@, id, one.reserveOut) ELSE @],
                    i + 1)

\* lines 3197-3264
ImportEnd(m, a) ==
    LET cs == m.newCurrencyState
        def == a.importCurrencyDef
        r == InOuts_(m.d, a, [ReserveInputs |-> CCurrencyValueMap,
                              spentCurrencyOut |-> CCurrencyValueMap,
                              systemOutConverted |-> 0, nativeOut |-> cs.nativeOut], 1)
        ReserveInputs ==
            IF m.d.nativeIn # 0 \/ r.systemOutConverted # 0
            THEN MapPut(r.ReserveInputs, def.systemID,
                        Max(m.d.nativeIn, r.systemOutConverted))
            ELSE r.ReserveInputs
        spentCurrencyOut ==
            IF m.d.nativeOut # 0 THEN MapAdd(r.spentCurrencyOut, def.systemID, m.d.nativeOut)
            ELSE r.spentCurrencyOut
        ended ==
            [m EXCEPT
               !.newCurrencyState =
                   [@ EXCEPT
                      !.nativeConversionFees =
                          IF m.d.currencies[SystemDestID(a)].has
                          THEN m.d.currencies[SystemDestID(a)].reserveConversionFees
                          ELSE @,
                      !.conversionFees = AsCurrencyVector(ReserveConversionFeesMap(m.d),
                                                          cs.currencies),
                      !.fees = AsCurrencyVector(m.convertedFees, cs.currencies),
                      !.nativeOut = r.nativeOut],
               !.spentCurrencyOut = spentCurrencyOut,
               !.d = IF r.systemOutConverted # 0
                     THEN [@ EXCEPT !.currencies[ImportCurrencyID(a)] =
                                        [@ EXCEPT !.has = TRUE,
                                                  !.reserveOutConverted =
                                                      r.systemOutConverted]]
                     ELSE @]
    IN IF m.status # "running" THEN m
       ELSE IF HasNegative(MapMinus(ReserveInputs, spentCurrencyOut)) THEN Fail(ended)
       ELSE [ended EXCEPT !.status = "done"]

\* the objects the call leaves: ok is what it returned, locals what some of its local
\* variables held when it returned
AddReserveTransferImportOutputs(d, a, o) ==
    LET m == ImportEnd_(
                 Emission_(
                     LaunchState_(
                         Flows_(
                             ImportConversion_(
                                 CarveOutsAndBurn_(
                                     Transfers_(ImportBegin_(d, a, o), a, 1),
                                     a), a), a), a), a), a)
    IN [status |-> m.status, ok |-> m.status = "done", d |-> m.d, vOutputs |-> m.vOutputs,
        importedCurrency |-> m.importedCurrency,
        gatewayDepositsIn |-> m.gatewayDepositsIn,
        spentCurrencyOut |-> m.spentCurrencyOut,
        newCurrencyState |-> m.newCurrencyState,
        locals |-> [totalNativeFee |-> m.totalNativeFee,
                    exporterReward |-> m.exporterReward,
                    totalMinted |-> m.totalMinted,
                    burnedChangePrice |-> m.burnedChangePrice,
                    reserveConverted |-> m.reserveConverted,
                    fractionalConverted |-> m.fractionalConverted,
                    preConvertedOutput |-> m.preConvertedOutput,
                    preConvertedReserves |-> m.preConvertedReserves,
                    totalCarveOuts |-> m.totalCarveOuts,
                    newPrices |-> m.newPrices,
                    outside |-> m.outside]]

\* the operation f on the arguments args, which are evaluated before the call
Invoke(f, args) ==
    IF ~Evaluated(args) THEN <<>>
    ELSE CASE f = "BigMulSmall" -> BigMulSmall(args[1], args[2])
           [] f = "BigMul" -> BigMul(args[1], args[2])
           [] f = "BigDigit" -> BigDigit(args[1], args[2])
           [] f = "BigDivModAt" -> BigDivModAt(args[1], args[2], args[3])
           [] f = "BigDiv" -> BigDiv(args[1], args[2])
           [] f = "BigMod" -> BigMod(args[1], args[2])
           [] f = "ToBig" -> ToBig(args[1])
           [] f = "GetLow64" -> GetLow64(args[1])
           [] f = "BigPow" -> BigPow(args[1], args[2])
           [] f = "to_int64" -> to_int64(args[1], args[2], args[3])
           [] f = "PriceInReserveDec" -> PriceInReserveDec(args[1], args[2])
           [] f = "PriceInReserve" -> PriceInReserve(args[1], args[2])
           [] f = "PricesInReserve" -> PricesInReserve(args[1])
           [] f = "ReserveToNativeRaw" -> ReserveToNativeRaw(args[1], args[2])
           [] f = "NativeToReserveRaw" -> NativeToReserveRaw(args[1], args[2])
           [] f = "ReserveToNative" -> ReserveToNative(args[1], args[2], args[3])
           [] f = "NativeToReserve" -> NativeToReserve(args[1], args[2], args[3])
           [] f = "CalculateFractionalOut" -> CalculateFractionalOut(args[1], args[2], args[3], args[4])
           [] f = "CalculateReserveOut" -> CalculateReserveOut(args[1], args[2], args[3], args[4])
           [] f = "NetFlows" -> NetFlows(args[1], args[2], args[3], args[4], args[5], args[6])
           [] f = "OneLayer" -> OneLayer(args[1], args[2], args[3], args[4], args[5], args[6])
           [] f = "Layers" -> Layers(args[1], args[2], args[3], args[4], args[5])
           [] f = "AddShares" -> AddShares(args[1], args[2], args[3], args[4], args[5], args[6], args[7])
           [] f = "AddSecond" -> AddSecond(args[1], args[2], args[3], args[4], args[5])
           [] f = "BuyLayers" -> BuyLayers(args[1], args[2], args[3], args[4], args[5], args[6])
           [] f = "SellLayers" -> SellLayers(args[1], args[2], args[3], args[4], args[5], args[6], args[7], args[8])
           [] f = "BuyAfterSell" -> BuyAfterSell(args[1], args[2], args[3], args[4], args[5], args[6], args[7])
           [] f = "Prices" -> Prices(args[1], args[2], args[3], args[4], args[5], args[6], args[7], args[8])
           [] f = "FillRates" -> FillRates(args[1], args[2])
           [] f = "ConvertLayers" -> ConvertLayers(args[1], args[2], args[3], args[4])
           [] f = "ConvertBuy" -> ConvertBuy(args[1], args[2])
           [] f = "ConvertSell" -> ConvertSell(args[1], args[2], args[3])
           [] f = "ConvertBuyAfterSell" -> ConvertBuyAfterSell(args[1], args[2], args[3], args[4])
           [] f = "ConvertPrices" -> ConvertPrices(args[1], args[2], args[3], args[4], args[5])
           [] f = "FractionsToConvert" -> FractionsToConvert(args[1], args[2])
           [] f = "ViaCall" -> ViaCall(args[1], args[2])
           [] f = "ConvertReturn" -> ConvertReturn(args[1], args[2], args[3])
           [] f = "ConvertAmountsReturn" -> ConvertAmountsReturn(args[1], args[2], args[3], args[4], args[5], args[6])
           [] f = "NewRatio" -> NewRatio(args[1], args[2], args[3])
           [] f = "UpdateWithEmission" -> UpdateWithEmission(args[1], args[2], args[3])
           [] f = "ConvertAmounts" -> ConvertAmounts(args[1])
           [] f = "Within" -> Within(args[1], args[2])
           [] f = "Bit" -> Bit(args[1], args[2], args[3], args[4])
           [] f = "MaxAmount" -> MaxAmount(args[1], args[2])
           [] f = "ConvertLocals" -> ConvertLocals(args[1], args[2], args[3], args[4])
           [] f = "CalculateConversionFeeNoMin" -> CalculateConversionFeeNoMin(args[1])
           [] f = "CalculateConversionFee" -> CalculateConversionFee(args[1])
           [] f = "AdditionalFeeDifference" -> AdditionalFeeDifference(args[1], args[2], args[3], args[4])
           [] f = "AdditionalFeeAgain" -> AdditionalFeeAgain(args[1], args[2], args[3])
           [] f = "AdditionalFeeOfGrossed" -> AdditionalFeeOfGrossed(args[1], args[2], args[3])
           [] f = "CalculateAdditionalConversionFee" -> CalculateAdditionalConversionFee(args[1], args[2])
           [] f = "ImportBegin" -> ImportBegin(args[1], args[2], args[3])
           [] f = "TransferBegin" -> TransferBegin(args[1], args[2], args[3])
           [] f = "TransferFees" -> TransferFees(args[1], args[2])
           [] f = "TransferInputs" -> TransferInputs(args[1], args[2])
           [] f = "CrossSystemInput" -> CrossSystemInput(args[1], args[2])
           [] f = "SameSystemInput" -> SameSystemInput(args[1], args[2])
           [] f = "PreAllocations" -> PreAllocations(args[1], args[2], args[3])
           [] f = "LaunchClear" -> LaunchClear(args[1], args[2])
           [] f = "ConvertOneFee" -> ConvertOneFee(args[1], args[2], args[3])
           [] f = "ConvertFees" -> ConvertFees(args[1], args[2], args[3])
           [] f = "FeeConversion" -> FeeConversion(args[1], args[2])
           [] f = "ExportFee" -> ExportFee(args[1], args[2])
           [] f = "FeeTransfer" -> FeeTransfer(args[1], args[2])
           [] f = "CalculateExportFeeRaw" -> CalculateExportFeeRaw(args[1], args[2])
           [] f = "ExportReward" -> ExportReward(args[1])
           [] f = "PreConverted" -> PreConverted(args[1], args[2], args[3], args[4])
           [] f = "PreConversion" -> PreConversion(args[1], args[2])
           [] f = "Converted" -> Converted(args[1], args[2], args[3], args[4], args[5], args[6])
           [] f = "ConversionOf" -> ConversionOf(args[1], args[2], args[3], args[4], args[5])
           [] f = "Conversion" -> Conversion(args[1], args[2])
           [] f = "PlainTransfer" -> PlainTransfer(args[1], args[2])
           [] f = "TransferOutput" -> TransferOutput(args[1], args[2])
           [] f = "Transfers" -> Transfers(args[1], args[2], args[3])
           [] f = "CarveOutsAndBurn" -> CarveOutsAndBurn(args[1], args[2])
           [] f = "ImportConversion" -> ImportConversion(args[1], args[2])
           [] f = "Flows" -> Flows(args[1], args[2])
           [] f = "FeesUndone" -> FeesUndone(args[1], args[2], args[3], args[4])
           [] f = "LaunchState" -> LaunchState(args[1], args[2])
           [] f = "Emission" -> Emission(args[1], args[2])
           [] f = "InOuts" -> InOuts(args[1], args[2], args[3], args[4])
           [] f = "ImportEnd" -> ImportEnd(args[1], args[2])
           [] f = "AddReserveTransferImportOutputs" -> AddReserveTransferImportOutputs(args[1], args[2], args[3])

---------------------------------------------------------------------------
(* State.  pc is the position of the caller; call holds the arguments of   *)
(* the ConvertAmounts call in hand ([st, inputReserves, inputFractional,   *)
(* newState, cross, viaPrices], st being the state the call is made on and *)
(* newState / viaPrices the caller's objects before the call); cv holds    *)
(* the locals of the call and via those of the second call it makes;       *)
(* ret is what the call returned, retPermuted what the same call returned  *)
(* with the reserve positions permuted by permutation.  curState is the    *)
(* currency state UpdateWithEmission is called on, priorState what it held *)
(* before the last call and toEmit the argument of that call.              *)

VARIABLES pc, call, cv, viaCall, via, ret, permutation, retPermuted,
          curState, priorState, toEmit,
          import, descriptor, caller, first, again, other,
          transfer, fee

cvVars == <<cv, viaCall, via>>

convertVars == <<call, cvVars, ret, permutation, retPermuted>>

emissionVars == <<curState, priorState, toEmit>>

importVars == <<import, descriptor, caller, first, again, other>>

feeVars == <<transfer, fee>>

vars == <<pc, convertVars, emissionVars, importVars, feeVars>>

NoImport == [status |-> "none"]

\* the objects of a caller that has made no call
NoCallerObjects ==
    [vOutputs |-> <<>>, importedCurrency |-> CCurrencyValueMap,
     gatewayDepositsIn |-> CCurrencyValueMap, spentCurrencyOut |-> CCurrencyValueMap,
     newCurrencyState |-> CCoinbaseCurrencyState(InvalidCurrencyState, <<>>, <<>>)]

\* no import in hand
NoImports ==
    /\ import = NoImport
    /\ descriptor = CReserveTransactionDescriptor
    /\ caller = NoCallerObjects
    /\ first = NoImport
    /\ again = NoImport
    /\ other = NoImport

\* no transfer fee asked for
NoFees ==
    /\ transfer = NoImport
    /\ fee = 0

NoReturn == [outcome |-> "none", path |-> "none", rates |-> <<>>,
             newState |-> InvalidCurrencyState, viaPrices |-> <<>>]

---------------------------------------------------------------------------
(* The calls of ConvertAmounts the conversion specification makes.         *)

MaxReserveIn == 2
MaxFractionalIn == 2

Reserve1(s) ==
    [valid |-> TRUE, flags |-> {"FRACTIONAL"}, currencies |-> <<"r0">>,
     weights |-> <<SATOSHIDEN>>, reserves |-> <<s>>, initialSupply |-> 0, emitted |-> 0,
     supply |-> s]

Basket(weights, reserves, supply) ==
    [valid |-> TRUE, flags |-> {"FRACTIONAL"}, currencies |-> <<"r0", "r1">>,
     weights |-> weights, reserves |-> reserves, initialSupply |-> 0, emitted |-> 0,
     supply |-> supply]

Basket3(weights, reserves, supply) ==
    [valid |-> TRUE, flags |-> {"FRACTIONAL"}, currencies |-> <<"r0", "r1", "r2">>,
     weights |-> weights, reserves |-> reserves, initialSupply |-> 0, emitted |-> 0,
     supply |-> supply]

Half == SATOSHIDEN \div 2

Quarter == SATOSHIDEN \div 4

BasketState == Basket(<<Half, Half>>, <<10 * UnitAmount, 20 * UnitAmount>>, 40 * UnitAmount)

Call(st, inputReserves, inputFractional, newState, cross) ==
    [st |-> st, inputReserves |-> inputReserves, inputFractional |-> inputFractional,
     newState |-> newState, cross |-> cross, viaPrices |-> <<>>]

ReserveAmounts == {k * UnitAmount : k \in 0..MaxReserveIn}

FractionalAmounts == {3 * k * UnitAmount : k \in 0..MaxFractionalIn}

\* what the caller's newState holds before the call
NewStates == {InvalidCurrencyState, Reserve1(UnitAmount)}

BasketCalls ==
    {Call(BasketState, <<a, b>>, <<c, d>>, InvalidCurrencyState, NoCrossConversions) :
        a \in ReserveAmounts, b \in ReserveAmounts, c \in FractionalAmounts, d \in FractionalAmounts}

CrossSet ==
    {CrossConversions(<< <<0, 0>>, <<0, 0>> >>),
     CrossConversions(<< <<0, UnitAmount>>, <<0, 0>> >>),
     CrossConversions(<< <<0, UnitAmount>>, <<UnitAmount, 0>> >>),
     CrossConversions(<< <<0, 0>>, <<0>> >>),
     CrossConversions(<< <<0, UnitAmount>> >>)}

CrossCalls ==
    {Call(BasketState, inputReserves, <<0, 0>>, newState, cross) :
        inputReserves \in {<<UnitAmount, 0>>, <<0, 0>>}, newState \in NewStates, cross \in CrossSet}

InvalidCalls ==
    {Call(BasketState, in[1], in[2], newState, NoCrossConversions) :
        in \in {<< <<UnitAmount>>, <<0, 0>> >>, << <<UnitAmount, 0>>, <<0>> >>,
                << <<UnitAmount, 0, 0>>, <<0, 0, 0>> >>,
                << <<-UnitAmount, 0>>, <<0, 0>> >>, << <<UnitAmount, 0>>, <<0, -UnitAmount>> >>},
        newState \in NewStates}
    \cup
    {Call(Basket(weights, <<10 * UnitAmount, 20 * UnitAmount>>, 40 * UnitAmount),
          <<a, 0>>, <<0, 0>>, newState, NoCrossConversions) :
        weights \in {<<0, SATOSHIDEN>>, <<Half, 0>>, <<SATOSHIDEN, 1>>},
        a \in {0, UnitAmount}, newState \in NewStates}

SingleCalls ==
    {Call(Reserve1(s), <<r>>, <<f>>, InvalidCurrencyState, NoCrossConversions) :
        s \in {4 * SATOSHIDEN, UnitAmount, 3}, r \in {0, 1, UnitAmount, SATOSHIDEN},
        f \in {0, UnitAmount}}

\* calls whose intermediate values do not fit an amount
OverflowCalls ==
    {Call(Basket(<<Half, Half>>, <<1000, 1000>>, 1000), <<0, 0>>, <<30 * UnitAmount, 0>>,
          InvalidCurrencyState, NoCrossConversions),
     Call(Basket(<<Half, Half>>, <<1, 1>>, 40 * UnitAmount), <<2000, 0>>, <<0, 0>>,
          InvalidCurrencyState, NoCrossConversions),
     Call(Basket(<<SATOSHIDEN \div 10, 9 * (SATOSHIDEN \div 10)>>,
                 <<10 * UnitAmount, 20 * UnitAmount>>, 40 * UnitAmount),
          <<0, 0>>, <<3000 * UnitAmount, 0>>, InvalidCurrencyState, NoCrossConversions)}

\* calls on a basket of three reserves of unequal weights
SkewCalls ==
    {Call(Basket3(<<Quarter, Quarter, Half>>,
                  <<10 * UnitAmount, 10 * UnitAmount, 20 * UnitAmount>>, 40 * UnitAmount),
          inputReserves, inputFractional, InvalidCurrencyState, NoCrossConversions) :
        inputReserves \in {<<UnitAmount, 0, 0>>, <<UnitAmount, UnitAmount, 0>>,
                           <<0, 0, 2 * UnitAmount>>, <<UnitAmount, 2 * UnitAmount, 0>>},
        inputFractional \in {<<0, 0, 0>>, <<0, 0, 3 * UnitAmount>>, <<0, 3 * UnitAmount, 0>>}}

\* calls whose routes give the second call an amount it refuses: a negative route, and
\* a route that is no amount of the fractional currency at the rate of its source
ViaFailCalls ==
    {Call(BasketState, <<UnitAmount, 0>>, <<0, 0>>, newState,
          CrossConversions(<< <<0, route>>, <<0, 0>> >>)) :
        route \in {-UnitAmount, 20000 * UnitAmount}, newState \in NewStates}

ConvertCalls ==
    BasketCalls \cup CrossCalls \cup InvalidCalls \cup SingleCalls \cup OverflowCalls
    \cup SkewCalls \cup ViaFailCalls

\* the call with the reserve positions of the state and of the inputs permuted:
\* position i holds what position p[i] held
Permuted(c, p) ==
    LET n == Len(c.st.currencies)
    IN [c EXCEPT !.st.currencies = [i \in 1..n |-> c.st.currencies[p[i]]],
                 !.st.weights    = [i \in 1..n |-> c.st.weights[p[i]]],
                 !.st.reserves   = [i \in 1..n |-> c.st.reserves[p[i]]],
                 !.inputReserves   = [i \in 1..n |-> c.inputReserves[p[i]]],
                 !.inputFractional = [i \in 1..n |-> c.inputFractional[p[i]]]]

InitLocals ==
    /\ cv = NoLocals
    /\ viaCall = [made |-> FALSE]
    /\ via = NoLocals

\* no UpdateWithEmission in hand
NoEmission ==
    /\ curState = InvalidCurrencyState
    /\ priorState = InvalidCurrencyState
    /\ toEmit = 0

InitConvert ==
    /\ pc = "call"
    /\ call \in ConvertCalls
    /\ InitLocals
    /\ ret = NoReturn
    /\ permutation = <<>>
    /\ retPermuted = NoReturn
    /\ NoEmission
    /\ NoImports
    /\ NoFees

\* the caller makes the call
Convert ==
    /\ pc = "call"
    /\ \E r \in {ConvertAmounts_(call)} :
          /\ cv' = r.cv
          /\ viaCall' = r.viaCall
          /\ via' = r.via
          /\ ret' = r.ret
    /\ pc' = IF ret'.outcome = "abort" THEN "aborted" ELSE "returned"
    /\ UNCHANGED <<call, permutation, retPermuted, emissionVars, importVars, feeVars>>

\* the caller makes the same call with the reserves listed in another order
ConvertPermuted ==
    /\ pc \in {"returned", "aborted"}
    /\ Len(call.inputReserves) = Len(call.st.currencies)
    /\ Len(call.inputFractional) = Len(call.st.currencies)
    /\ ~call.cross.present
    /\ \E p \in Permutations(1..Len(call.st.currencies)) :
          /\ \E i \in DOMAIN p : p[i] # i
          /\ permutation' = p
          /\ \E r \in {ConvertAmounts_(Permuted(call, p))} :
                /\ cv' = r.cv
                /\ viaCall' = r.viaCall
                /\ via' = r.via
                /\ retPermuted' = r.ret
    /\ pc' = "permuted"
    /\ UNCHANGED <<call, ret, emissionVars, importVars, feeVars>>

NextConvert == Convert \/ ConvertPermuted

SpecConvert == InitConvert /\ [][NextConvert]_vars

---------------------------------------------------------------------------
(* The calls of UpdateWithEmission the emission specification makes: one   *)
(* call on each state, as the function asks for.                           *)

MaxEmit == 3

EmissionAmounts == {0, 1} \cup {k * 10 * UnitAmount : k \in 1..MaxEmit}

EmissionSupplies == {1, UnitAmount, 40 * UnitAmount}

EmissionStates ==
    {Basket(weights, <<10 * UnitAmount, 20 * UnitAmount>>, supply) :
        weights \in {<<Half, Half>>, <<SATOSHIDEN \div 100, 49 * (SATOSHIDEN \div 100)>>,
                     <<Quarter, Half>>, <<1, 2>>},
        supply \in EmissionSupplies}
    \cup
    {Basket3(weights, <<10 * UnitAmount, 10 * UnitAmount, 20 * UnitAmount>>, supply) :
        weights \in {<<Quarter, Quarter, Half>>, <<33333333, 33333333, 33333333>>},
        supply \in EmissionSupplies}
    \cup
    {Reserve1(supply) : supply \in EmissionSupplies}
    \cup
    {[Reserve1(UnitAmount) EXCEPT !.flags = {}],
     Basket(<<Half, Half>>, <<0, 0>>, UnitAmount),
     Basket(<<Half, Half>>, <<0, 0>>, 0),
     Basket(<<Half, Half>>, <<0, 0>>, -1),
     Basket(<<Half, Half>>, <<10 * UnitAmount, 20 * UnitAmount>>, 0 - UnitAmount),
     [Reserve1(0 - UnitAmount) EXCEPT !.flags = {}]}

NoCall == Call(InvalidCurrencyState, <<>>, <<>>, InvalidCurrencyState, NoCrossConversions)

\* no ConvertAmounts in hand
NoConvert ==
    /\ call = NoCall
    /\ InitLocals
    /\ ret = NoReturn
    /\ permutation = <<>>
    /\ retPermuted = NoReturn

InitEmission ==
    /\ pc = "emission"
    /\ curState \in EmissionStates
    /\ priorState = curState
    /\ toEmit = 0
    /\ NoConvert
    /\ NoImports
    /\ NoFees

\* the caller prepares the currency state for the next block
Emit ==
    /\ pc = "emission"
    /\ \E k \in EmissionAmounts :
          /\ toEmit' = k
          /\ \E shuffle \in Permutations(1..Len(curState.currencies)) :
                curState' = UpdateWithEmission_(curState, k, shuffle)
    /\ priorState' = curState
    /\ pc' = "emitted"
    /\ UNCHANGED <<convertVars, importVars, feeVars>>

NextEmission == Emit

SpecEmission == InitEmission /\ [][NextEmission]_vars

---------------------------------------------------------------------------
(* The imports the import specification makes.  import holds the arguments *)
(* of the call, descriptor the descriptor it is first made on and caller   *)
(* the caller's objects before a call; first is what the first call left,  *)
(* again what a second call with the same arguments on the same descriptor *)
(* left, and other what the call left on another descriptor.               *)

MaxTransfers == 2

Address == [NoDestination EXCEPT !.type = "pkh", !.size = 20]

Transfer(flags, currency, amount, nFees, destCurrencyID) ==
    [CReserveTransfer({"VALID"} \cup flags, currency, amount, "vrsc", nFees,
                      destCurrencyID, Address) EXCEPT !.valid = TRUE]

TransferFee == 2 * DEFAULT_PER_STEP_FEE

\* an amount below the least conversion fee
SmallAmount == MIN_SUCCESS_FEE - 5000

\* transfers to a fractional currency that is running
PlainNative == Transfer({}, "vrsc", UnitAmount, TransferFee, "vrsc")

ConvertToken == Transfer({"CONVERT"}, "usd", 2 * UnitAmount, 0, "frac")

SellFractional == Transfer({"CONVERT", "IMPORT_TO_SOURCE"}, "frac", 30 * UnitAmount, 0, "vrsc")

BurnFractional ==
    Transfer({"BURN_CHANGE_PRICE", "IMPORT_TO_SOURCE"}, "frac", UnitAmount, TransferFee, "frac")

MintFractional == Transfer({"MINT_CURRENCY"}, "vrsc", UnitAmount, TransferFee, "frac")

InvalidTransfer == [PlainNative EXCEPT !.valid = FALSE]

\* the transfers that batches of more than one transfer are made of
PairTransfers ==
    {PlainNative, ConvertToken, SellFractional, BurnFractional, MintFractional,
     InvalidTransfer}

FractionalTransfers ==
    PairTransfers \cup
    {Transfer({}, "usd", UnitAmount, TransferFee, "usd"),
     Transfer({}, "vrsc", UnitAmount, 0, "vrsc"),
     Transfer({}, "vrsc", UnitAmount, TransferFee - 1, "vrsc"),
     [Transfer({}, "usd", UnitAmount, TransferFee, "usd") EXCEPT !.feeCurrencyID = "usd"],
     [Transfer({}, "usd", UnitAmount, 2 * TransferFee, "usd") EXCEPT !.feeCurrencyID = "usd"],
     [BurnFractional EXCEPT !.feeCurrencyID = "usd", !.nFees = TransferFee],
     [BurnFractional EXCEPT !.feeCurrencyID = "usd", !.nFees = 2 * TransferFee],
     [BurnFractional EXCEPT !.feeCurrencyID = "usd", !.nFees = 3 * TransferFee],
     [BurnFractional EXCEPT !.feeCurrencyID = "usd", !.nFees = 4 * TransferFee],
     Transfer({"CONVERT"}, "vrsc", UnitAmount, 0, "frac"),
     Transfer({"CONVERT"}, "usd", SmallAmount, 0, "frac"),
     Transfer({"CONVERT"}, "vrsc", 2 * SmallAmount, 0, "frac"),
     Transfer({"CONVERT", "IMPORT_TO_SOURCE"}, "frac", UnitAmount, 0, "usd"),
     [Transfer({"CONVERT", "RESERVE_TO_RESERVE"}, "vrsc", UnitAmount, 0, "frac")
          EXCEPT !.secondReserveID = "usd"],
     [Transfer({"CONVERT", "RESERVE_TO_RESERVE"}, "vrsc", 2 * SmallAmount, 0, "frac")
          EXCEPT !.secondReserveID = "usd"],
     Transfer({"PRECONVERT"}, "vrsc", 2 * UnitAmount, TransferFee, "frac"),
     Transfer({"BURN_CHANGE_WEIGHT", "IMPORT_TO_SOURCE"}, "frac", UnitAmount, TransferFee,
              "frac"),
     Transfer({"BURN_CHANGE_PRICE", "IMPORT_TO_SOURCE"}, "frac", 50 * UnitAmount,
              TransferFee, "frac"),
     Transfer({"BURN_CHANGE_PRICE"}, "usd", UnitAmount, TransferFee, "usd"),
     [BurnFractional EXCEPT !.flags = {"BURN_CHANGE_WEIGHT", "IMPORT_TO_SOURCE"}],
     Transfer({"MINT_CURRENCY"}, "usd", UnitAmount, TransferFee, "usd"),
     Transfer({"MINT_CURRENCY", "IMPORT_TO_SOURCE"}, "usd", UnitAmount, TransferFee, "frac"),
     Transfer({}, "vrsc", UnitAmount, TransferFee, "none"),
     [Transfer({}, "vrsc", UnitAmount, TransferFee, "vrsc")
          EXCEPT !.destination = NoDestination],
     [Transfer({}, "usd", UnitAmount, TransferFee, "usd")
          EXCEPT !.destination = NoDestination],
     [Transfer({}, "usd", UnitAmount, TransferFee, "usd") EXCEPT !.destination.type = "sh"],
     [Transfer({}, "vrsc", UnitAmount, TransferFee, "vrsc") EXCEPT !.destination.type = "sh"],
     [Transfer({}, "usd", UnitAmount, TransferFee, "usd")
          EXCEPT !.destination.gatewayLeg = TRUE, !.destination.gatewayID = "src"],
     Transfer({"IMPORT_TO_SOURCE"}, "usd", UnitAmount, TransferFee, "usd"),
     Transfer({}, "usd", UnitAmount, TransferFee, "vrsc")}

\* transfers to a currency before its launch
LaunchTransfers ==
    {Transfer({"PRECONVERT"}, "vrsc", 2 * UnitAmount, TransferFee, "frac"),
     Transfer({"PRECONVERT"}, "usd", 2 * UnitAmount, TransferFee, "frac"),
     Transfer({"PRECONVERT"}, "vrsc", 2 * UnitAmount, TransferFee, "tok"),
     Transfer({"PRECONVERT"}, "usd", 2 * UnitAmount, TransferFee, "tok"),
     Transfer({"PRECONVERT"}, "vrsc", SmallAmount, TransferFee, "frac"),
     Transfer({}, "vrsc", UnitAmount, TransferFee, "vrsc")}

\* the transfers that the batches to a currency with earlier pre-conversions are made of
FundedTransfers ==
    {Transfer({"PRECONVERT"}, "vrsc", 2 * UnitAmount, TransferFee, "frac"),
     Transfer({"PRECONVERT"}, "usd", 2 * UnitAmount, TransferFee, "frac"),
     BurnFractional}

\* the transfers of the exports to the currency without the native currency as reserve
ForeignTransfers ==
    {PlainNative, ConvertToken,
     Transfer({}, "usd", UnitAmount, 2 * TransferFee, "usd"),
     [Transfer({}, "usd", UnitAmount, 2 * TransferFee, "frac") EXCEPT
         !.feeCurrencyID = "usd"],
     [BurnFractional EXCEPT !.feeCurrencyID = "frac"]}

\* the transfers of the exports to the native currency of the chain
NativeTransfers ==
    {Transfer({"IMPORT_TO_SOURCE"}, "vrsc", UnitAmount, TransferFee, "vrsc"),
     Transfer({}, "usd", UnitAmount, TransferFee, "usd")}

\* transfers of an export that is refunded
RefundTransfers ==
    LaunchTransfers \cup
    {ConvertToken, SellFractional, MintFractional, BurnFractional,
     Transfer({"CONVERT", "DOUBLE_SEND"}, "vrsc", UnitAmount, TransferFee, "frac"),
     Transfer({"PREALLOCATE"}, "vrsc", UnitAmount, TransferFee, "frac"),
     Transfer({"REFUND"}, "usd", UnitAmount, TransferFee, "usd"),
     [Transfer({"PRECONVERT"}, "usd", UnitAmount, TransferFee, "frac")
          EXCEPT !.destination.type = "fullid"]}

Batches(transfers) ==
    UNION {[1..n -> transfers] : n \in 0..MaxTransfers}

\* every transfer alone, and the batches of the transfers of pairs
BatchesOf(transfers, pairs) ==
    {<<t>> : t \in transfers} \cup Batches(pairs)

FracState(flags, reserves, supply) ==
    LET st == [Basket(<<Half, Half>>, reserves, supply) EXCEPT
                  !.flags = {"FRACTIONAL"} \cup flags,
                  !.currencies = <<"vrsc", "usd">>]
    IN CCoinbaseCurrencyState(st, PricesInReserve_(st), PricesInReserve_(st))

TokState(flags, supply) ==
    CCoinbaseCurrencyState(
        [valid |-> TRUE, flags |-> flags, currencies |-> <<"vrsc">>, weights |-> <<0>>,
         reserves |-> <<0>>, initialSupply |-> 0, emitted |-> 0, supply |-> supply],
        <<SATOSHIDEN>>, <<SATOSHIDEN>>)

Launched == {"LAUNCH_CONFIRMED", "LAUNCH_COMPLETE"}

\* the fractional currency with reserves that the native currency of the chain is
\* not one of, and its states after launch and at the import that clears its launch
ForeignFRAC == [FRAC EXCEPT !.currencies = <<"usd", "tok">>]

ForeignState(flags) ==
    [FracState(flags, <<10 * UnitAmount, 20 * UnitAmount>>, 40 * UnitAmount) EXCEPT
        !.currencies = <<"usd", "tok">>]

\* what a read outside a vector may give
UndefinedReads == {0, 1}

\* the state of the native currency of the chain, which has no reserves
NativeState ==
    CCoinbaseCurrencyState(
        [valid |-> TRUE, flags |-> Launched, currencies |-> <<>>, weights |-> <<>>,
         reserves |-> <<>>, initialSupply |-> 0, emitted |-> 0,
         supply |-> 40 * UnitAmount],
        <<>>, <<>>)

ImportOf(systemSource, def, state, batch) ==
    [systemSource |-> systemSource, systemDest |-> VRSC, importCurrencyDef |-> def,
     importCurrencyState |-> state, exportObjects |-> batch,
     shuffle |-> <<1, 2>>, undefined |-> 0]

\* a fractional currency that is running
RunningState == FracState(Launched, <<10 * UnitAmount, 20 * UnitAmount>>, 40 * UnitAmount)

\* a fractional currency before its launch, and at the import that clears its launch
PrelaunchState == FracState({"PRELAUNCH"}, <<0, 0>>, 0)

\* the currency after the import that cleared its launch and before its launch is
\* complete
ConfirmedState ==
    FracState({"LAUNCH_CONFIRMED"}, <<4 * UnitAmount, 4 * UnitAmount>>, 8 * UnitAmount)

\* the currency in prelaunch with pre-conversions of earlier imports
FundedState ==
    FracState({"PRELAUNCH"}, <<4 * UnitAmount, 4 * UnitAmount>>, 8 * UnitAmount)

\* the fractional currency and the token defined with a carve-out of a quarter
CarveOutFRAC == [FRAC EXCEPT !.totalCarveOut = SATOSHIDEN \div 4]

CarveOutTOK == [TOK EXCEPT !.totalCarveOut = SATOSHIDEN \div 4]

\* the currency after a launch that failed, its pre-conversions being refunded
RefundingState ==
    FracState({"PRELAUNCH", "REFUNDING"}, <<4 * UnitAmount, 4 * UnitAmount>>,
              8 * UnitAmount)

\* the running currency with twice the reserve of usd: a price of 2 usd
SkewState == FracState(Launched, <<10 * UnitAmount, 40 * UnitAmount>>, 40 * UnitAmount)

LaunchClearState ==
    FracState({"PRELAUNCH", "LAUNCH_CLEAR", "LAUNCH_CONFIRMED"},
              <<4 * UnitAmount, 4 * UnitAmount>>, 8 * UnitAmount)

ImportCalls ==
    {ImportOf(system, FRAC, RunningState, batch) :
        system \in {VRSC, SRC}, batch \in BatchesOf(FractionalTransfers, PairTransfers)}
    \cup {ImportOf(VRSC, def, state, batch) :
             def \in {FRAC, CarveOutFRAC}, state \in {FundedState, LaunchClearState},
             batch \in BatchesOf(LaunchTransfers \cup {BurnFractional}, FundedTransfers)}
    \cup {ImportOf(VRSC, CarveOutTOK,
                    TokState({"PRELAUNCH", "LAUNCH_CLEAR", "LAUNCH_CONFIRMED"}, 0), batch) :
             batch \in BatchesOf(LaunchTransfers, {})}
    \cup {[ImportOf(VRSC, ForeignFRAC, ForeignState(flags), batch) EXCEPT
              !.undefined = undefined] :
             flags \in {Launched, {"LAUNCH_CONFIRMED"}, {"PRELAUNCH"},
                        {"PRELAUNCH", "LAUNCH_CLEAR", "LAUNCH_CONFIRMED"}},
             batch \in BatchesOf(ForeignTransfers, {}), undefined \in UndefinedReads}
    \cup {ImportOf(system, VRSC, NativeState, batch) :
             system \in {VRSC, SRC}, batch \in BatchesOf(NativeTransfers, {})}
    \cup {ImportOf(VRSC, FRAC, RefundingState, batch) :
             batch \in BatchesOf(RefundTransfers, {PlainNative, ConvertToken})}
    \cup {ImportOf(VRSC, FRAC, SkewState, batch) :
             batch \in BatchesOf(FractionalTransfers, {})}
    \cup {ImportOf(system, FRAC, state, batch) :
             system \in {VRSC, SRC},
             state \in {PrelaunchState, LaunchClearState, ConfirmedState},
             batch \in BatchesOf(LaunchTransfers, {})}
    \cup {ImportOf(VRSC, TOK, TokState({"PRELAUNCH", "LAUNCH_CLEAR", "LAUNCH_CONFIRMED"}, 0),
                    batch) : batch \in BatchesOf(LaunchTransfers, {})}

UsedDescriptor ==
    [CReserveTransactionDescriptor EXCEPT
        !.nativeIn = UnitAmount, !.nativeOut = UnitAmount, !.numTransfers = 1,
        !.currencies.usd = [has |-> TRUE, reserveIn |-> UnitAmount,
                            reserveOut |-> UnitAmount, reserveOutConverted |-> 0,
                            nativeOutConverted |-> 0, reserveConversionFees |-> 0]]

Descriptors == {CReserveTransactionDescriptor, UsedDescriptor}

InitImport ==
    /\ pc = "import"
    /\ import \in ImportCalls
    /\ descriptor \in Descriptors
    /\ caller = NoCallerObjects
    /\ first = NoImport
    /\ again = NoImport
    /\ other = NoImport
    /\ NoConvert
    /\ NoEmission
    /\ NoFees

\* the caller makes the call on the descriptor
Import ==
    /\ pc = "import"
    /\ first' = AddReserveTransferImportOutputs_(descriptor, import, caller)
    /\ pc' = "imported"
    /\ UNCHANGED <<import, descriptor, caller, again, other, convertVars, emissionVars, feeVars>>

\* the caller makes the call once more on the same descriptor, with objects as they
\* were before the first call
ImportAgain ==
    /\ pc = "imported"
    /\ first.status # "aborted"
    /\ again' = AddReserveTransferImportOutputs_(first.d, import, caller)
    /\ pc' = "again"
    /\ UNCHANGED <<import, descriptor, caller, first, other, convertVars, emissionVars, feeVars>>

\* the caller makes the call on another descriptor
ImportOther ==
    /\ pc = "again"
    /\ \E d \in Descriptors \ {descriptor} :
          other' = AddReserveTransferImportOutputs_(d, import, caller)
    /\ pc' = "other"
    /\ UNCHANGED <<import, descriptor, caller, first, again, convertVars, emissionVars, feeVars>>

\* the caller takes the state a successful import left back to the state before it
Revert ==
    /\ pc = "imported"
    /\ first.status = "done"
    /\ curState' = RevertReservesAndSupply(first.newCurrencyState)
    /\ pc' = "reverted"
    /\ UNCHANGED <<priorState, toEmit, importVars, convertVars, feeVars>>

NextImport == Import \/ ImportAgain \/ ImportOther \/ Revert

SpecImport == InitImport /\ [][NextImport]_vars

---------------------------------------------------------------------------
(* The fee a transfer has to pay: CalculateTransferFee is called on a      *)
(* transfer with any of the flags it reads and a destination of some       *)
(* length.  A shift of a 64-bit integer by 64 or more is undefined: the    *)
(* call then returns what the build makes of it.                           *)

\* the lengths of a destination, up to MaxDivisors times DESTINATION_BYTE_DIVISOR
MaxDivisors == 3

DestinationSizes ==
    {0, 20, DESTINATION_BYTE_DIVISOR - 1}
    \cup {n * DESTINATION_BYTE_DIVISOR + more : n \in 1..MaxDivisors, more \in {0, 1}}

\* what a build can make of a shift by more than the width of the integer: nothing,
\* a value beyond any fee, the fee of the description for one of the lengths
UndefinedShifts == {0, INT64_MAX, TransferFee * 2, TransferFee * 3, TransferFee * 4}

FeeTransfers ==
    {[Transfer(flags, "vrsc", UnitAmount, TransferFee, "vrsc")
          EXCEPT !.destination.size = size] :
        flags \in SUBSET {"FEE_OUTPUT", "CONVERT", "PRECONVERT"}, size \in DestinationSizes}

InitTransferFee ==
    /\ pc = "fee"
    /\ transfer \in FeeTransfers
    /\ fee = 0
    /\ NoConvert
    /\ NoEmission
    /\ NoImports

CalculateFee ==
    /\ pc = "fee"
    /\ \E undefined \in UndefinedShifts : fee' = CalculateTransferFee(transfer, undefined)
    /\ pc' = "calculated"
    /\ UNCHANGED <<transfer, convertVars, emissionVars, importVars>>

NextTransferFee == CalculateFee

SpecTransferFee == InitTransferFee /\ [][NextTransferFee]_vars

----------------------------------------------------------------------------
(* The fee added to an amount to convert: CalculateAdditionalConversionFee *)
(* is called on the amount of a conversion.  The amounts lie around those  *)
(* where the fee changes its form: zero, the least fee, the amounts whose  *)
(* fee leaves the least fee, and the greatest amounts.                     *)

\* how far the amounts lie from the amounts where the fee changes its form
MaxNear == 8

\* the amounts that pay one unit of fee for SATOSHIDEN \div SUCCESS_FEE units
FeeSteps == SATOSHIDEN \div SUCCESS_FEE

ConversionAmounts ==
    {amount \in {base + near :
                    base \in {0, MIN_SUCCESS_FEE, MIN_SUCCESS_FEE * (FeeSteps - 1),
                              MIN_SUCCESS_FEE * FeeSteps, 2 * MIN_SUCCESS_FEE * FeeSteps,
                              INT64_MAX - INT64_MAX \div FeeSteps,
                              INT64_MAX - MaxNear},
                    near \in -MaxNear..MaxNear} : amount >= 0}

\* what a build may return for an amount whose grossed-up amount overflows
UndefinedFees == {0, -1, MIN_SUCCESS_FEE, INT64_MAX}

InitAdditionalFee ==
    /\ pc = "amount"
    /\ transfer \in {Transfer({"CONVERT"}, "vrsc", amount, TransferFee, "frac") :
                        amount \in ConversionAmounts}
    /\ fee = 0
    /\ NoConvert
    /\ NoEmission
    /\ NoImports

CalculateAdditionalFee ==
    /\ pc = "amount"
    /\ \E undefined \in UndefinedFees :
          fee' = CalculateAdditionalConversionFee_(transfer.amount, undefined)
    /\ pc' = "added"
    /\ UNCHANGED <<transfer, convertVars, emissionVars, importVars>>

NextAdditionalFee == CalculateAdditionalFee

SpecAdditionalFee == InitAdditionalFee /\ [][NextAdditionalFee]_vars

---------------------------------------------------------------------------
(* Properties of ConvertAmounts, checked under SpecConvert.                *)

\* the call in hand has ended, and ret holds what it returned
Called == pc # "call"

\* both input vectors have one amount for each reserve
InputsSized(c) ==
    /\ Len(c.inputReserves) = Len(c.st.currencies)
    /\ Len(c.inputFractional) = Len(c.st.currencies)

NoAmount(c) ==
    /\ \A i \in 1..Len(c.inputReserves) : c.inputReserves[i] = 0
    /\ \A i \in 1..Len(c.inputFractional) : c.inputFractional[i] = 0

\* the cross-conversion matrix is passed and is not n rows of n entries
CrossMalformed(c) ==
    /\ c.cross.present
    /\ \/ Len(c.cross.rows) # Len(c.st.currencies)
       \/ \E i \in 1..Len(c.cross.rows) : Len(c.cross.rows[i]) # Len(c.st.currencies)

ValidationFails(c) ==
    \/ ~InputsSized(c)
    \/ CrossMalformed(c)
    \/ \E i \in 1..Len(c.inputReserves) : c.inputReserves[i] < 0
    \/ \E i \in 1..Len(c.inputFractional) : c.inputFractional[i] < 0
    \/ \E i \in 1..Len(c.st.weights) : c.st.weights[i] = 0
    \/ SumSeq(c.st.weights) > SATOSHIDEN

\* C4: whenever validation fails (an input vector of another length than the number
\* of reserves, a cross-conversion matrix that is not n rows of n entries, a negative
\* input amount, a zero weight, a total weight above SATOSHIDEN) ConvertAmounts
\* returns PricesInReserve() and leaves the caller's newState as it was.
ValidationLeavesNewState ==
    (Called /\ ValidationFails(call)) =>
        /\ ret.outcome = "returned"
        /\ ret.rates = PricesInReserve_(call.st)
        /\ ret.newState = call.newState

\* a matrix of n rows with a row of another length, and an amount to convert: the
\* call took the return of a call with nothing to convert
MalformedRowOverwrites ==
    /\ pc = "returned"
    /\ CrossMalformed(call) /\ Len(call.cross.rows) = Len(call.st.currencies)
    /\ InputsSized(call) /\ ~NoAmount(call)
    /\ ret.path = "noconversion"
    /\ ret.newState = call.st /\ ret.newState # call.newState

\* an intermediate value of the call did not fit an amount: the weight-adjusted net
\* flow or a layer amount, the result of CalculateFractionalOut, or the result of
\* CalculateReserveOut
Overflowed ==
    /\ pc \in {"returned", "aborted"}
    /\ \/ cv.layers.status = "overflow"
       \/ cv.buy.status = "supply"
       \/ cv.sell.status = "reserveout"

\* C5: if an intermediate value of ConvertAmounts does not fit a signed 64-bit
\* amount, the call ends normally, returns the initial prices and leaves newState
\* unmodified; it never aborts.
OverflowEndsNormally ==
    Overflowed =>
        /\ ret.outcome = "returned"
        /\ ret.rates = PricesInReserve_(call.st)
        /\ ret.newState = call.newState

\* the result of CalculateReserveOut was no amount, and the process ended there
ReserveOutAborted ==
    /\ pc = "aborted"
    /\ cv.sell.status = "reserveout"
    /\ ret.outcome = "abort"

\* the overflows the call checks for end it normally, newState as it was
OverflowRefused ==
    /\ pc = "returned"
    /\ cv.layers.status = "overflow"
    /\ ret.rates = PricesInReserve_(call.st)
    /\ ret.newState = call.newState

\* the input vectors are sized, the matrix if passed has n rows, no amount is not 0
NothingToConvert(c) ==
    /\ InputsSized(c)
    /\ c.cross.present => Len(c.cross.rows) = Len(c.st.currencies)
    /\ NoAmount(c)

\* C6 as written: ConvertAmounts called with correctly sized input vectors that hold
\* no non-zero amount returns the initial prices and leaves the caller's newState
\* untouched.
NoConversionLeavesNewState ==
    (Called /\ InputsSized(call) /\ NoAmount(call)) =>
        /\ ret.outcome = "returned"
        /\ ret.rates = PricesInReserve_(call.st)
        /\ ret.newState = call.newState

\* C6: ConvertAmounts called with correctly sized input vectors (and a matrix, if
\* one is passed, of n rows) that hold no non-zero amount returns the initial prices
\* and sets the caller's newState to a copy of the state the call was made on.
NoConversionCopiesState ==
    (Called /\ NothingToConvert(call)) =>
        /\ ret.outcome = "returned"
        /\ ret.rates = PricesInReserve_(call.st)
        /\ ret.newState = call.st

\* a call with nothing to convert has returned, the caller's newState another state
\* than the one the call was made on
NoConversionReturned ==
    /\ pc = "returned"
    /\ NothingToConvert(call)
    /\ call.newState # call.st
    /\ ret.path = "noconversion"

\* C7: ConvertAmounts does not depend on the listing order of the reserves: with one
\* permutation applied to the reserve positions of the state and of both input
\* vectors, the call ends the same way and yields the same rate and the same new
\* reserve for every currency, and the same new supply.
OrderIndependent ==
    pc = "permuted" =>
        /\ retPermuted.outcome = ret.outcome
        /\ retPermuted.path = ret.path
        /\ Len(retPermuted.rates) = Len(ret.rates)
        /\ \A i \in 1..Len(ret.rates) : retPermuted.rates[i] = ret.rates[permutation[i]]
        /\ IF ret.path \in {"ok", "noconversion"}
           THEN /\ retPermuted.newState.supply = ret.newState.supply
                /\ Len(retPermuted.newState.reserves) = Len(ret.newState.reserves)
                /\ \A i \in 1..Len(ret.newState.reserves) :
                      retPermuted.newState.reserves[i] = ret.newState.reserves[permutation[i]]
           ELSE retPermuted.newState = ret.newState

\* the permuted call converted in both directions, to rates that differ by currency
PermutedConversion ==
    /\ pc = "permuted"
    /\ ret.path = "ok" /\ retPermuted.path = "ok"
    /\ \E i \in 1..Len(call.inputReserves) : call.inputReserves[i] > 0
    /\ \E i \in 1..Len(call.inputFractional) : call.inputFractional[i] > 0
    /\ \E i \in 1..Len(ret.rates) : ret.rates[i] # ret.rates[permutation[i]]
    /\ \E i \in 1..Len(ret.rates) :
          ret.newState.reserves[i] # ret.newState.reserves[permutation[i]]

\* one reserve of weight SATOSHIDEN, the reserve equal to the supply; r > 0 reserve
\* units in and no fractional in
OneToOneBuy(c) ==
    /\ Len(c.st.currencies) = 1
    /\ c.st.weights = <<SATOSHIDEN>>
    /\ c.st.reserves = <<c.st.supply>>
    /\ c.st.supply >= 0
    /\ ~c.cross.present
    /\ InputsSized(c)
    /\ c.inputReserves[1] > 0
    /\ c.inputFractional[1] = 0

---------------------------------------------------------------------------
(* Properties of UpdateWithEmission, checked under SpecEmission.           *)

\* every weight is > 0 and the weights sum to at most SATOSHIDEN
WeightsValid(st) ==
    /\ \A i \in 1..Len(st.weights) : st.weights[i] > 0
    /\ SumSeq(st.weights) <= SATOSHIDEN

\* C10: from a fractional state whose weights are all > 0 and sum to at most
\* SATOSHIDEN, after UpdateWithEmission(k) for a k >= 0 every weight is still > 0
\* and the weights still sum to at most SATOSHIDEN.
EmissionKeepsWeights ==
    (pc = "emitted" /\ IsFractional(priorState) /\ WeightsValid(priorState) /\ toEmit >= 0) =>
        WeightsValid(curState)

\* an emission took a weight of a valid state to below 0
EmissionNegativeWeight ==
    /\ pc = "emitted"
    /\ IsFractional(priorState) /\ WeightsValid(priorState) /\ toEmit > 0
    /\ \E i \in 1..Len(curState.weights) : curState.weights[i] < 0

\* the sum of the weights after an emission is the new ratio, never above the old
EmissionLowersRatio ==
    (pc = "emitted" /\ IsFractional(priorState) /\ WeightsValid(priorState) /\ toEmit >= 0) =>
        SumSeq(curState.weights) <= SumSeq(priorState.weights)

\* every reserve holds a positive amount
PositiveReserves(st) == \A i \in 1..Len(st.reserves) : st.reserves[i] > 0

\* weight is within one unit of previous * supply / (supply + k)
ScaledWithinOne(weight, previous, supply, k) ==
    LET scaled == BigMul_(ToBig_(previous), ToBig_(supply))
        total  == BigAdd(ToBig_(supply), ToBig_(k))
        now    == BigMul_(ToBig_(Abs(weight)), total)
    IN /\ weight >= 0
       /\ BigLe(now, BigAdd(scaled, total))
       /\ BigLe(scaled, BigAdd(now, total))

\* an emission into a fractional state with supply and reserves
Emitted ==
    /\ pc = "emitted"
    /\ IsFractional(priorState) /\ WeightsValid(priorState)
    /\ priorState.supply > 0 /\ PositiveReserves(priorState)
    /\ toEmit >= 0

\* C11: after UpdateWithEmission(k) on a fractional state with supply > 0 and positive
\* reserves every reserve is unchanged, supply has grown by exactly k and each weight
\* is the previous weight times supply / (supply + k) to within one unit, whatever the
\* total weight up to SATOSHIDEN.
EmissionScalesWeights ==
    Emitted =>
        /\ curState.reserves = priorState.reserves
        /\ curState.supply = priorState.supply + toEmit
        /\ \A i \in 1..Len(curState.weights) :
              ScaledWithinOne(curState.weights[i], priorState.weights[i],
                              priorState.supply, toEmit)

\* an emission that kept the reserves and added to the supply, and left a weight more
\* than one unit from its share
EmissionSkewsWeights ==
    /\ Emitted
    /\ toEmit > 0
    /\ curState.reserves = priorState.reserves
    /\ curState.supply = priorState.supply + toEmit
    /\ \E i \in 1..Len(curState.weights) :
          /\ curState.weights[i] > 0
          /\ ~ScaledWithinOne(curState.weights[i], priorState.weights[i],
                              priorState.supply, toEmit)

\* the reserves and the supply of an emission are as C11 says
EmissionKeepsReserves ==
    Emitted =>
        /\ curState.reserves = priorState.reserves
        /\ curState.supply = priorState.supply + toEmit

\* an emission into a state that is not fractional or has no supply
EmittedWithoutRatio ==
    /\ pc = "emitted"
    /\ ~IsFractional(priorState) \/ priorState.supply <= 0

\* C12: UpdateWithEmission(k) on a state that is not fractional or whose supply is
\* <= 0, a negative supply included, leaves weights and reserves unchanged and sets
\* supply to the old supply plus k.
EmissionAddsToSupply ==
    EmittedWithoutRatio =>
        /\ curState.weights = priorState.weights
        /\ curState.reserves = priorState.reserves
        /\ curState.supply = priorState.supply + toEmit

\* C12 as the program has it: weights and reserves are unchanged; the supply is the
\* old supply plus k when the old supply is >= 0, and k when it is negative.
EmissionAddsOrRestarts ==
    EmittedWithoutRatio =>
        /\ curState.weights = priorState.weights
        /\ curState.reserves = priorState.reserves
        /\ curState.supply = IF priorState.supply < 0 THEN toEmit
                             ELSE priorState.supply + toEmit
        /\ curState.emitted = toEmit

\* an emission into a state of negative supply that left the emission as the supply
EmissionRestartsSupply ==
    /\ EmittedWithoutRatio
    /\ priorState.supply < 0
    /\ toEmit > 0
    /\ curState.supply = toEmit

---------------------------------------------------------------------------
(* Properties of the import processor.                                     *)

\* what the currency id holds in the value map
AmountOf(map, id) == map[id].amt

Ids == {CurrencyIds[i] : i \in 1..Len(CurrencyIds)}

\* C1: after every successful import, same-system or cross-system, the amount of
\* each currency in importedCurrency plus its amount in gatewayDepositsIn is at least
\* its amount in spentCurrencyOut.
ImportConserves ==
    first.status = "done" =>
        \A id \in Ids :
            AmountOf(first.importedCurrency, id) + AmountOf(first.gatewayDepositsIn, id)
                >= AmountOf(first.spentCurrencyOut, id)

\* a successful import from the system itself that spends native currency and has
\* credited none
ImportSpendsUncredited ==
    /\ first.status = "done"
    /\ import.systemSource.id = import.systemDest.id
    /\ Len(import.exportObjects) > 0
    /\ AmountOf(first.spentCurrencyOut, "vrsc") > 0
    /\ AmountOf(first.importedCurrency, "vrsc") = 0
    /\ AmountOf(first.gatewayDepositsIn, "vrsc") = 0

\* what a call has given its caller: the outcome, the output list, the balance maps
\* and the next currency state
Given(r) ==
    <<r.status, r.vOutputs, r.importedCurrency, r.gatewayDepositsIn, r.spentCurrencyOut,
      r.newCurrencyState>>

\* C2: for fixed arguments any two calls give the same next currency state, the same
\* output list and the same balance maps, whatever descriptor they are made on, a
\* second call on the same descriptor included.
ImportDeterministic ==
    /\ again.status # "none" => Given(again) = Given(first)
    /\ other.status # "none" => Given(other) = Given(first)

\* two successful calls with the same arguments on the same descriptor that leave
\* different amounts spent
SecondImportDiffers ==
    /\ first.status = "done"
    /\ again.status = "done"
    /\ again.vOutputs = first.vOutputs
    /\ again.spentCurrencyOut # first.spentCurrencyOut

\* C3: when the call returns failure nothing has been applied: the output list,
\* importedCurrency, gatewayDepositsIn, the returned currency state and the ledgers of
\* the descriptor hold what they held before the call.
FailureAppliesNothing ==
    first.status = "failed" =>
        /\ first.vOutputs = caller.vOutputs
        /\ first.importedCurrency = caller.importedCurrency
        /\ first.gatewayDepositsIn = caller.gatewayDepositsIn
        /\ first.newCurrencyState = caller.newCurrencyState
        /\ first.d = descriptor

\* a call that failed after it had pushed an output, credited a deposit and counted
\* native input on a descriptor that had none
FailedImportApplied ==
    /\ first.status = "failed"
    /\ descriptor = CReserveTransactionDescriptor
    /\ Len(first.vOutputs) > Len(caller.vOutputs)
    /\ first.gatewayDepositsIn # caller.gatewayDepositsIn
    /\ first.d.nativeIn > 0
    /\ first.newCurrencyState.valid

\* C9: from a prior state whose reserves and supply are not negative, after every
\* successful import every reserve of the new currency state is >= 0 and, when the
\* state is launch-confirmed, so is its supply.
ImportKeepsReserves ==
    (/\ first.status = "done"
     /\ import.importCurrencyState.supply >= 0
     /\ \A i \in 1..Len(import.importCurrencyState.reserves) :
           import.importCurrencyState.reserves[i] >= 0)
    => /\ \A i \in 1..Len(first.newCurrencyState.reserves) :
             first.newCurrencyState.reserves[i] >= 0
       /\ IsLaunchConfirmed(first.newCurrencyState) => first.newCurrencyState.supply >= 0

\* a successful import that leaves a reserve below zero
ImportOverdrawsReserve ==
    /\ first.status = "done"
    /\ import.importCurrencyState.supply > 0
    /\ \A i \in 1..Len(import.importCurrencyState.reserves) :
          import.importCurrencyState.reserves[i] > 0
    /\ \E i \in 1..Len(first.newCurrencyState.reserves) :
          first.newCurrencyState.reserves[i] < 0

\* the only transfer of the export
OnlyTransfer == import.exportObjects[1]

\* a successful import of one conversion or pre-conversion that is not a fee output
ConversionAlone ==
    /\ pc = "imported"
    /\ first.status = "done"
    /\ Len(import.exportObjects) = 1
    /\ IsConversion(OnlyTransfer) \/ IsPreConversion(OnlyTransfer)
    /\ ~IsFeeOutput(OnlyTransfer)

\* the conversion fee the import took from the only transfer
FeeDeducted == first.d.currencies[OnlyTransfer.currency].reserveConversionFees

\* the fee of an amount as the conversion fee is described: SUCCESS_FEE of the amount,
\* at least MIN_SUCCESS_FEE, twice that for a conversion from reserve to reserve
FeeOf(amount, reserveToReserve) ==
    Max(CalculateConversionFeeNoMin_(amount), MIN_SUCCESS_FEE)
        * (IF reserveToReserve THEN 2 ELSE 1)

\* C13 as written: the conversion fee taken from a CONVERT or PRECONVERT transfer of a
\* successful import is at least MIN_SUCCESS_FEE whatever the amount, and the fee of a
\* RESERVE_TO_RESERVE conversion is twice the fee the same amount pays without
\* RESERVE_TO_RESERVE.
ConversionFeeAtLeastMin ==
    ConversionAlone =>
        /\ FeeDeducted >= MIN_SUCCESS_FEE
        /\ (IsConversion(OnlyTransfer) /\ ~IsPreConversion(OnlyTransfer)
            /\ IsReserveToReserve(OnlyTransfer))
           => FeeDeducted = 2 * Min(FeeOf(OnlyTransfer.amount, FALSE), OnlyTransfer.amount)

\* C13: the conversion fee taken from a CONVERT or PRECONVERT transfer of a successful
\* import is the lesser of the amount of the transfer and SUCCESS_FEE of the amount
\* raised to MIN_SUCCESS_FEE, that fee doubled before it is compared with the amount
\* for a RESERVE_TO_RESERVE conversion; the import of a refunding currency handles the
\* transfer as its refund and takes no conversion fee.
ConversionFeeCapped ==
    ConversionAlone =>
        FeeDeducted =
            IF IsRefunding(import.importCurrencyState) THEN 0
            ELSE Min(FeeOf(OnlyTransfer.amount,
                           ~IsPreConversion(OnlyTransfer) /\ IsReserveToReserve(OnlyTransfer)),
                     OnlyTransfer.amount)

\* a successful conversion of less than MIN_SUCCESS_FEE, all of it taken as the fee
ConversionFeeIsAmount ==
    /\ ConversionAlone
    /\ OnlyTransfer.amount < MIN_SUCCESS_FEE
    /\ FeeDeducted = OnlyTransfer.amount

---------------------------------------------------------------------------
(* Properties of CalculateTransferFee, checked under SpecTransferFee.      *)

\* the fee as it is described for a destination of a length
DescribedTransferFee(t) ==
    IF IsFeeOutput(t) \/ (IsConversion(t) /\ ~IsPreConversion(t)) THEN 0
    ELSE (2 * DEFAULT_PER_STEP_FEE)
             * (1 + t.destination.size \div DESTINATION_BYTE_DIVISOR)

\* C14: CalculateTransferFee returns 0 when FEE_OUTPUT is set or when CONVERT is set
\* without PRECONVERT; otherwise, for a destination of k bytes, it returns
\* (2 * DEFAULT_PER_STEP_FEE) * (1 + k div DESTINATION_BYTE_DIVISOR), for every k.
TransferFeeAsDescribed ==
    pc = "calculated" => fee = DescribedTransferFee(transfer)

\* a destination of DESTINATION_BYTE_DIVISOR bytes or more for which the call returned
\* another fee than the one described
TransferFeeUndefined ==
    /\ pc = "calculated"
    /\ transfer.destination.size >= DESTINATION_BYTE_DIVISOR
    /\ ~IsFeeOutput(transfer)
    /\ IsPreConversion(transfer) \/ ~IsConversion(transfer)
    /\ fee # DescribedTransferFee(transfer)

\* for a destination of less than DESTINATION_BYTE_DIVISOR bytes the call returns the
\* fee described
TransferFeeOfShortDestination ==
    (pc = "calculated" /\ transfer.destination.size < DESTINATION_BYTE_DIVISOR)
    => fee = DescribedTransferFee(transfer)

\* the fee of a transfer in the native currency of the destination system: a fee paid
\* in a reserve is converted to the fractional currency and from it to the native one
FeeInNative(t) ==
    IF t.feeCurrencyID = SystemDestID(import) THEN t.nFees
    ELSE NativeToReserveRaw_(
             ReserveToNativeRaw_(
                 t.nFees,
                 import.importCurrencyState.conversionPrice[
                     CurrencyIndex(import, t.feeCurrencyID)]),
             import.importCurrencyState.viaConversionPrice[SystemDestIdx(import)])

\* a transfer of the export whose fee is below the fee CalculateTransferFee asks for
FeeTooLow(t) ==
    /\ t.valid
    /\ t.feeCurrencyID = SystemDestID(import) \/ CurrencyIndex(import, t.feeCurrencyID) # 0
    /\ SystemDestIdx(import) # 0
    /\ FeeInNative(t) < CalculateTransferFee(t, 0)

\* C15: an import fails when one of its transfers pays a fee that, in the native
\* currency of the destination system, is below the fee CalculateTransferFee asks for:
\* from the same system and from another system, a fee paid in a reserve being
\* converted from the reserve to the fractional currency and from it to the native one.
LowFeeFails ==
    (/\ pc = "imported"
     /\ \E i \in 1..Len(import.exportObjects) : FeeTooLow(import.exportObjects[i]))
    => first.status # "done"

\* an import of this system that succeeded with a transfer whose fee, paid in a
\* reserve, is worth less than the fee asked for
LowReserveFeeAccepted ==
    /\ pc = "imported"
    /\ ~IsCrossSystemImport(import)
    /\ first.status = "done"
    /\ Len(import.exportObjects) = 1
    /\ OnlyTransfer.feeCurrencyID # SystemDestID(import)
    /\ FeeTooLow(OnlyTransfer)

\* an import from another system that succeeded with a transfer that pays no fee
NoFeeAcceptedAcrossSystems ==
    /\ pc = "imported"
    /\ IsCrossSystemImport(import)
    /\ first.status = "done"
    /\ Len(import.exportObjects) = 1
    /\ OnlyTransfer.nFees = 0
    /\ FeeTooLow(OnlyTransfer)

\* an import of this system fails when one of its transfers pays less than the fee
\* asked for in the native currency
LowNativeFeeFails ==
    (/\ pc = "imported"
     /\ ~IsCrossSystemImport(import)
     /\ \E i \in 1..Len(import.exportObjects) :
           /\ import.exportObjects[i].feeCurrencyID = SystemDestID(import)
           /\ FeeTooLow(import.exportObjects[i]))
    => first.status # "done"

PreConversionsOf(calls) ==
    {i \in 1..Len(calls.exportObjects) : IsPreConversion(calls.exportObjects[i])}

PreconvertIntoToken ==
    /\ pc = "imported"
    /\ first.status = "done"
    /\ Len(import.exportObjects) = 1
    /\ IsPreConversion(OnlyTransfer)
    /\ ~DefIsFractional(import.importCurrencyDef)
    /\ ImportCurrencyID(import) # SystemDestID(import)

\* the burns among the transfers of an export, and the amount they burn from
\* position i on
BurnsOf(calls) ==
    {i \in 1..Len(calls.exportObjects) : IsBurn(calls.exportObjects[i])}

RECURSIVE BurnedFrom(_, _)
BurnedFrom(calls, i) ==
    IF i > Len(calls.exportObjects) THEN 0
    ELSE (IF IsBurn(calls.exportObjects[i]) THEN calls.exportObjects[i].amount ELSE 0)
         + BurnedFrom(calls, i + 1)

\* an export without conversions and mints whose fees are not paid in the import
\* currency
OnlyBurnsAndTransfers(calls) ==
    \A i \in 1..Len(calls.exportObjects) :
        /\ ~IsConversion(calls.exportObjects[i])
        /\ ~IsPreConversion(calls.exportObjects[i])
        /\ ~IsMint(calls.exportObjects[i])
        /\ calls.exportObjects[i].feeCurrencyID # ImportCurrencyID(calls)

\* C18: a successful import has a BURN transfer only if the source currency of the
\* transfer is the import currency, the import currency is fractional or a token and
\* BURN_CHANGE_WEIGHT is not set; without conversions, mints and fees in the import
\* currency it lowers the supply by the amount burned; an import that burns more than
\* the supply fails.
BurnAsDescribed ==
    /\ (pc = "imported" /\ first.status = "done") =>
          /\ \A i \in BurnsOf(import) :
                /\ import.exportObjects[i].currency = ImportCurrencyID(import)
                /\ DefIsFractional(import.importCurrencyDef)
                   \/ DefIsToken(import.importCurrencyDef)
                /\ ~IsBurnChangeWeight(import.exportObjects[i])
          /\ (BurnsOf(import) # {} /\ OnlyBurnsAndTransfers(import))
             => first.newCurrencyState.supply
                    = import.importCurrencyState.supply - BurnedFrom(import, 1)
    /\ (pc = "imported" /\ BurnedFrom(import, 1) > import.importCurrencyState.supply
        /\ OnlyBurnsAndTransfers(import))
       => first.status # "done"

\* a successful import of a transfer with BURN_CHANGE_WEIGHT set
BurnChangeWeightAccepted ==
    /\ pc = "imported"
    /\ first.status = "done"
    /\ Len(import.exportObjects) = 1
    /\ OnlyTransfer.valid
    /\ IsBurnChangeWeight(OnlyTransfer)

\* the burns of a successful import are of the import currency, which is fractional or
\* a token; without conversions, mints and fees in the import currency the supply is
\* lowered by the amount burned, and burning more than the supply fails
BurnLowersSupply ==
    /\ (pc = "imported" /\ first.status = "done") =>
          /\ \A i \in BurnsOf(import) :
                /\ import.exportObjects[i].currency = ImportCurrencyID(import)
                /\ DefIsFractional(import.importCurrencyDef)
                   \/ DefIsToken(import.importCurrencyDef)
          /\ (BurnsOf(import) # {} /\ OnlyBurnsAndTransfers(import))
             => first.newCurrencyState.supply
                    = import.importCurrencyState.supply - BurnedFrom(import, 1)
    /\ (pc = "imported" /\ BurnedFrom(import, 1) > import.importCurrencyState.supply
        /\ OnlyBurnsAndTransfers(import))
       => first.status # "done"

\* a successful import that burned the amount of two transfers
TwoBurns ==
    /\ pc = "imported"
    /\ first.status = "done"
    /\ Cardinality(BurnsOf(import)) = 2
    /\ first.newCurrencyState.supply
           = import.importCurrencyState.supply - BurnedFrom(import, 1)

\* the mints among the transfers of an export, and the amount they mint from
\* position i on
MintsOf(calls) ==
    {i \in 1..Len(calls.exportObjects) : IsMint(calls.exportObjects[i])}

RECURSIVE MintedFrom(_, _)
MintedFrom(calls, i) ==
    IF i > Len(calls.exportObjects) THEN 0
    ELSE (IF IsMint(calls.exportObjects[i]) THEN calls.exportObjects[i].amount ELSE 0)
         + MintedFrom(calls, i + 1)

\* an export without conversions and burns whose fees are not paid in the import
\* currency
OnlyMintsAndTransfers(calls) ==
    \A i \in 1..Len(calls.exportObjects) :
        /\ ~IsConversion(calls.exportObjects[i])
        /\ ~IsPreConversion(calls.exportObjects[i])
        /\ ~IsBurn(calls.exportObjects[i])
        /\ calls.exportObjects[i].feeCurrencyID # ImportCurrencyID(calls)

\* C19: the MINT transfers of a successful import all have the import currency as
\* their destination currency, and the amounts they mint are emitted into the supply
\* of the new state.
MintAsDescribed ==
    (pc = "imported" /\ first.status = "done") =>
        /\ \A i \in MintsOf(import) :
              import.exportObjects[i].destCurrencyID = ImportCurrencyID(import)
        /\ (MintsOf(import) # {} /\ OnlyMintsAndTransfers(import))
           => first.newCurrencyState.supply
                  = import.importCurrencyState.supply + MintedFrom(import, 1)

\* a successful import of a MINT transfer of another currency than the import
\* currency: the amount is paid out and the supply is as it was
MintOfOtherCurrency ==
    /\ pc = "imported"
    /\ first.status = "done"
    /\ Len(import.exportObjects) = 1
    /\ IsMint(OnlyTransfer)
    /\ OnlyTransfer.destCurrencyID # ImportCurrencyID(import)
    /\ first.newCurrencyState.supply = import.importCurrencyState.supply
    /\ \E i \in 1..Len(first.vOutputs) :
          /\ first.vOutputs[i].currency = OnlyTransfer.destCurrencyID
          /\ first.vOutputs[i].amount = OnlyTransfer.amount

\* the amounts that the transfers of a successful import mint of the import currency
\* are emitted into the supply of the new state, and an import from another system
\* with a MINT transfer fails
MintedIsEmitted ==
    /\ (/\ pc = "imported"
        /\ first.status = "done"
        /\ MintsOf(import) # {}
        /\ OnlyMintsAndTransfers(import)
        /\ \A i \in MintsOf(import) :
              import.exportObjects[i].destCurrencyID = ImportCurrencyID(import))
       => first.newCurrencyState.supply
              = import.importCurrencyState.supply + MintedFrom(import, 1)
    /\ (pc = "imported" /\ IsCrossSystemImport(import) /\ MintsOf(import) # {})
       => first.status # "done"

\* a transfer that is no conversion, no pre-conversion and no burn
IsPlain(t) == ~IsConversion(t) /\ ~IsPreConversion(t) /\ ~IsBurn(t)

\* an output that carries the amount of a transfer in its destination currency
Carries(out, t) ==
    IF t.destCurrencyID = SystemDestID(import)
    THEN out.nValue = t.amount /\ out.currency = "null"
    ELSE out.currency = t.destCurrencyID /\ out.amount = t.amount

OutputsCarrying(t) ==
    {i \in 1..Len(first.vOutputs) : Carries(first.vOutputs[i], t)}

\* a successful import of one plain transfer
PlainAlone ==
    /\ pc = "imported"
    /\ first.status = "done"
    /\ Len(import.exportObjects) = 1
    /\ IsPlain(OnlyTransfer)

\* C20: a successful import of a plain transfer of an amount has appended exactly one
\* output that carries the amount in the destination currency of the transfer; when
\* no output can be built for the destination the import fails.
PlainTransferPaysOut ==
    PlainAlone => Cardinality(OutputsCarrying(OnlyTransfer)) = 1

\* a successful import of a valid plain transfer of a token to a destination that no
\* token output is built for: the amount is counted as spent and no output carries it
TransferWithoutOutput ==
    /\ PlainAlone
    /\ OnlyTransfer.valid
    /\ OnlyTransfer.destination.type = "sh"
    /\ first.vOutputs = <<>>
    /\ first.d.currencies[OnlyTransfer.destCurrencyID].reserveOut >= OnlyTransfer.amount

\* a successful import of a plain transfer of an amount in the native currency of the
\* system has appended exactly one output that carries it, and a successful import of
\* a plain transfer has appended at most one output
NativeTransferPaysOut ==
    PlainAlone =>
        /\ Cardinality(OutputsCarrying(OnlyTransfer)) <= 1
        /\ OnlyTransfer.destCurrencyID = SystemDestID(import)
           => Cardinality(OutputsCarrying(OnlyTransfer)) = 1

\* the payments of an amount of the native currency among the outputs of the call
PaymentsOf(amount) ==
    {i \in 1..Len(first.vOutputs) :
        first.vOutputs[i].kind = "pay" /\ first.vOutputs[i].nValue = amount}

\* C21: after the transfers of the export the fees in the native currency are added to
\* nativeOut and to nativeFees of the new state, and a successful import whose
\* ExportReward(ExportFee(totalNativeFee, numTransfers)) is positive has an output that
\* pays that reward to the exporter.
ExporterIsPaid ==
    (pc = "imported" /\ first.status = "done") =>
        /\ first.locals.exporterReward
               = ExportReward_(CalculateExportFeeRaw_(first.locals.totalNativeFee,
                                                      Len(import.exportObjects)))
        /\ first.locals.exporterReward > 0
           => PaymentsOf(first.locals.exporterReward) # {}

\* a successful import with a positive reward of the exporter and no output but the
\* one of its transfer
ExporterNotPaid ==
    /\ pc = "imported"
    /\ first.status = "done"
    /\ Len(import.exportObjects) = 1
    /\ first.locals.exporterReward > 0
    /\ Len(first.vOutputs) = 1
    /\ Carries(first.vOutputs[1], OnlyTransfer)
    /\ PaymentsOf(first.locals.exporterReward) = {}

\* after a successful import the reward of the exporter is
\* ExportReward(ExportFee(totalNativeFee, numTransfers)), and nativeFees of the new
\* state holds at least the fees in the native currency
NativeFeesCounted ==
    (pc = "imported" /\ first.status = "done") =>
        /\ first.locals.exporterReward
               = ExportReward_(CalculateExportFeeRaw_(first.locals.totalNativeFee,
                                                      Len(import.exportObjects)))
        /\ first.newCurrencyState.nativeFees >= first.locals.totalNativeFee
        /\ first.d.nativeOut >= first.locals.totalNativeFee

\* the refund form of a transfer as it is described
IsRefundOf(r, t) ==
    /\ r.flags \cap {"CONVERT", "PRECONVERT", "DOUBLE_SEND"} = {}
    /\ "REFUND" \in r.flags
    /\ r.destCurrencyID = t.currency
    /\ r.currency = t.currency
    /\ r.amount = IF IsMint(t) THEN 0 ELSE t.amount
    /\ ~IsMint(r)

\* C22: when the state of the import currency is refunding, the import handles the
\* refund form of every transfer of the export: CONVERT, PRECONVERT and DOUBLE_SEND
\* cleared, REFUND set, the source currency as destination currency, the amount zero
\* for a mint or pre-allocation; the import then converts, pre-converts and mints
\* nothing, and the refund form of a refund form is that refund form.
RefundingImportRefunds ==
    (pc = "imported" /\ IsRefunding(import.importCurrencyState)) =>
        /\ \A i \in 1..Len(import.exportObjects) :
              /\ IsRefundOf(CurTransfer(import, i), import.exportObjects[i])
              /\ GetRefundTransfer(CurTransfer(import, i)) = CurTransfer(import, i)
        /\ first.locals.reserveConverted = CCurrencyValueMap
        /\ first.locals.fractionalConverted = CCurrencyValueMap
        /\ first.locals.preConvertedOutput = CCurrencyValueMap
        /\ first.locals.preConvertedReserves = CCurrencyValueMap
        /\ first.locals.totalMinted = 0
        /\ first.newCurrencyState.preConvertedOut = 0
        /\ first.newCurrencyState.supply
               = import.importCurrencyState.supply - first.locals.burnedChangePrice
           \/ first.status # "done"

\* a successful refunding import of a pre-conversion: the amount is paid back in the
\* source currency and nothing is added to the supply
PreconvertRefunded ==
    /\ pc = "imported"
    /\ first.status = "done"
    /\ IsRefunding(import.importCurrencyState)
    /\ Len(import.exportObjects) = 1
    /\ IsPreConversion(OnlyTransfer)
    /\ Len(first.vOutputs) = 1
    /\ Carries(first.vOutputs[1], GetRefundTransfer(OnlyTransfer))
    /\ first.newCurrencyState.supply = import.importCurrencyState.supply

\* a successful refunding import of a mint, which mints nothing
MintRefunded ==
    /\ pc = "imported"
    /\ first.status = "done"
    /\ IsRefunding(import.importCurrencyState)
    /\ Len(import.exportObjects) = 1
    /\ IsMint(OnlyTransfer)
    /\ first.locals.totalMinted = 0

\* the fractional currency that the pre-conversions of an import put out
PreConvertedTotal ==
    SumSeq(AsCurrencyVector(first.locals.preConvertedOutput, CurrencyIds))

\* a successful import into a fractional currency in prelaunch whose export holds
\* pre-conversions and burns
PrelaunchWithBurns ==
    /\ pc = "imported"
    /\ first.status = "done"
    /\ IsFractional(import.importCurrencyState)
    /\ IsPrelaunch(import.importCurrencyState)
    /\ ~IsRefunding(import.importCurrencyState)
    /\ PreConversionsOf(import) # {}
    /\ BurnsOf(import) # {}

\* C23: after a successful prelaunch import into a fractional currency whose export
\* holds pre-conversions and burns, the supply is the old supply less the burned
\* amount plus the fractional output of the pre-conversions, and preConvertedOut is
\* that output.
PrelaunchSupplyConserved ==
    PrelaunchWithBurns =>
        /\ first.newCurrencyState.supply
               = import.importCurrencyState.supply - BurnedFrom(import, 1)
                 + PreConvertedTotal
        /\ first.newCurrencyState.preConvertedOut = PreConvertedTotal

\* the part of C23 that the import keeps: preConvertedOut is the pre-converted output
\* and the burned amount leaves the supply
PrelaunchOutputCounted ==
    PrelaunchWithBurns =>
        /\ first.newCurrencyState.preConvertedOut = PreConvertedTotal
        /\ first.newCurrencyState.supply
               = import.importCurrencyState.supply - BurnedFrom(import, 1)

\* a prelaunch import that pays out pre-converted currency which the supply lacks
PreconvertOutsideSupply ==
    /\ PrelaunchWithBurns
    /\ PreConvertedTotal > 0
    /\ \E i \in 1..Len(first.vOutputs) :
          /\ first.vOutputs[i].kind = "token"
          /\ first.vOutputs[i].currency = import.importCurrencyDef.id
          /\ first.vOutputs[i].amount = PreConvertedTotal
    /\ first.newCurrencyState.supply
           = import.importCurrencyState.supply - BurnedFrom(import, 1)

\* the aggregated conversion of the import `first` returned prices
ConversionRan == pc = "imported" /\ first.locals.newPrices # <<>>

ReturnedPricesKept ==
    /\ ConversionRan
    /\ first.status = "done"
    /\ IsLaunchCompleteMarker(first.newCurrencyState)
    /\ first.locals.newPrices # import.importCurrencyState.conversionPrice
    /\ first.newCurrencyState.conversionPrice = first.locals.newPrices

\* the reserve amount of the one pre-conversion of the import after the conversion fee
PostFeeAmount == OnlyTransfer.amount - FeeDeducted

\* floor(v * (SATOSHIDEN - c) / SATOSHIDEN) for the post-fee amount v and the carve-out
\* c of the import currency
AfterCarveOut ==
    BigToInt(BigDiv_(BigMul_(ToBig_(PostFeeAmount),
                             ToBig_(SATOSHIDEN - import.importCurrencyDef.totalCarveOut)),
                     BigOf(SATOSHIDEN)))

\* what an output pays to the id of the import currency in the currency given
PaidToCurrencyId(out, currency) ==
    IF out.to # CurrencyIdentity THEN 0
    ELSE IF out.kind = "pay" THEN (IF currency = SystemDestID(import) THEN out.nValue ELSE 0)
    ELSE IF out.currency = currency THEN out.amount
    ELSE 0

\* the outputs of the import that pay the amount given, in the currency of the
\* pre-conversion, to the id of the import currency
OutputsToCurrencyId(amount) ==
    {i \in 1..Len(first.vOutputs) :
        PaidToCurrencyId(first.vOutputs[i], OnlyTransfer.currency) = amount}

\* what the import added to the reserve of the currency of the pre-conversion
ReserveCredited ==
    first.newCurrencyState.reserves[CurrencyIndex(import, OnlyTransfer.currency)]
        - import.importCurrencyState.reserves[CurrencyIndex(import, OnlyTransfer.currency)]

\* a successful import of one pre-conversion that puts out currency, into a currency
\* with a carve-out, in a state where the reserves take the pre-converted amount or
\* the currency has no reserves
CarveOutCase ==
    /\ ConversionAlone
    /\ IsPreConversion(OnlyTransfer)
    /\ import.importCurrencyDef.totalCarveOut > 0
    /\ import.importCurrencyDef.totalCarveOut < SATOSHIDEN
    /\ first.locals.preConvertedOutput # CCurrencyValueMap
    /\ DefIsFractional(import.importCurrencyDef) =>
           ~IsLaunchConfirmed(import.importCurrencyState)

\* C25: a pre-conversion into a currency with a carve-out c, 0 < c < SATOSHIDEN, splits
\* the post-fee amount v: the carve-out output carries v - floor(v * (SATOSHIDEN - c) /
\* SATOSHIDEN), the reserves of the currency are credited with the remainder, or the
\* remainder is sent to the currency id when the currency is not fractional, and the
\* two parts sum to v.
CarveOutSplitsAmount ==
    CarveOutCase =>
        /\ OutputsToCurrencyId(PostFeeAmount - AfterCarveOut) # {}
        /\ IF DefIsFractional(import.importCurrencyDef)
           THEN /\ ReserveCredited = AfterCarveOut
                /\ ReserveCredited + (PostFeeAmount - AfterCarveOut) = PostFeeAmount
           ELSE \E i \in OutputsToCurrencyId(AfterCarveOut) :
                   \E j \in OutputsToCurrencyId(PostFeeAmount - AfterCarveOut) :
                      /\ i # j
                      /\ PaidToCurrencyId(first.vOutputs[i], OnlyTransfer.currency)
                         + PaidToCurrencyId(first.vOutputs[j], OnlyTransfer.currency)
                             = PostFeeAmount

\* what the import does in the case of C25: the carve-out output is as described, a
\* currency that is not fractional is sent the remainder, the reserves of a fractional
\* currency are credited with the whole post-fee amount
CarveOutPaidFromAmount ==
    CarveOutCase =>
        /\ OutputsToCurrencyId(PostFeeAmount - AfterCarveOut) # {}
        /\ first.locals.totalCarveOuts[OnlyTransfer.currency].amt
               = PostFeeAmount - AfterCarveOut
        /\ IF DefIsFractional(import.importCurrencyDef)
           THEN ReserveCredited = PostFeeAmount
           ELSE \E i \in OutputsToCurrencyId(AfterCarveOut) :
                   \E j \in OutputsToCurrencyId(PostFeeAmount - AfterCarveOut) : i # j

\* a pre-conversion into the fractional currency with a carve-out: the carve-out is
\* paid out and the reserves are credited with the carve-out as well
CarveOutCountedTwice ==
    /\ CarveOutCase
    /\ DefIsFractional(import.importCurrencyDef)
    /\ PostFeeAmount - AfterCarveOut > 0
    /\ OutputsToCurrencyId(PostFeeAmount - AfterCarveOut) # {}
    /\ ReserveCredited = PostFeeAmount

\* a pre-conversion into the token with a carve-out: remainder and carve-out are paid
\* to the currency id
CarveOutOfToken ==
    /\ CarveOutCase
    /\ ~DefIsFractional(import.importCurrencyDef)
    /\ PostFeeAmount - AfterCarveOut > 0
    /\ OutputsToCurrencyId(AfterCarveOut) # {}
    /\ OutputsToCurrencyId(PostFeeAmount - AfterCarveOut) # {}

\* a successful import whose state has been reverted
Reverted == pc = "reverted"

\* C26: RevertReservesAndSupply undoes an import: applied to the state a successful
\* import left, it gives the reserves and the supply of the state the import started
\* from and per-block flows of zero.
RevertUndoesImport ==
    Reverted =>
        /\ curState.reserves = import.importCurrencyState.reserves
        /\ curState.supply = import.importCurrencyState.supply
        /\ curState = ClearForNextBlock(curState)

\* the part of C26 that holds: the reverted state has per-block flows of zero
RevertClearsFlows ==
    Reverted => curState = ClearForNextBlock(curState)

\* what C26 says of the reserves: the reverted state has the reserves the import
\* started from
RevertRestoresReserves ==
    Reverted => curState.reserves = import.importCurrencyState.reserves

\* a successful import of a burn, reverted: the supply stays without the burned amount
BurnNotReverted ==
    /\ Reverted
    /\ Len(import.exportObjects) = 1
    /\ IsBurn(OnlyTransfer)
    /\ OnlyTransfer.amount > 0
    /\ first.newCurrencyState.supply
           = import.importCurrencyState.supply - OnlyTransfer.amount
    /\ curState.supply = import.importCurrencyState.supply - OnlyTransfer.amount
    /\ curState.reserves = import.importCurrencyState.reserves

\* the amounts whose grossed-up amount is an amount
GrossedUpFits(amount) == amount <= INT64_MAX - INT64_MAX \div FeeSteps - 1

\* C27: for every amount a >= 0 the fee f = CalculateAdditionalConversionFee(a) is the
\* conversion fee of the grossed-up amount a + f, where the least fee applies and
\* where it does not.
AdditionalFeeIsFeeOfSum ==
    pc = "added" =>
        /\ fee >= 0
        /\ SumFits(transfer.amount, fee)
        /\ CalculateConversionFee_(transfer.amount + fee) = fee

\* what holds of C27: the fee is the conversion fee of the grossed-up amount for every
\* amount whose grossed-up amount is an amount
AdditionalFeeWhereItFits ==
    (pc = "added" /\ GrossedUpFits(transfer.amount)) =>
        /\ fee >= MIN_SUCCESS_FEE
        /\ SumFits(transfer.amount, fee)
        /\ CalculateConversionFee_(transfer.amount + fee) = fee

\* an amount so great that its grossed-up amount is no amount: the call returns a fee
\* that is not the conversion fee of the sum
AdditionalFeeOverflows ==
    /\ pc = "added"
    /\ transfer.amount = INT64_MAX
    /\ fee = 0
    /\ CalculateConversionFee_(transfer.amount + fee) # fee

\* an amount above the least fee's reach whose fee is the fee of the grossed-up amount
AdditionalFeeAboveLeast ==
    /\ pc = "added"
    /\ GrossedUpFits(transfer.amount)
    /\ fee > MIN_SUCCESS_FEE
    /\ CalculateConversionFee_(transfer.amount + fee) = fee

\* the fee transfer the import makes after the transfers of the export
TrailingTransfer == CurTransfer(import, Len(import.exportObjects) + 1)

\* the trailing transfer passes the tests made of every transfer: IMPORT_TO_SOURCE is
\* set exactly when the source currency is the import currency, and the destination
\* currency is known
TrailingTransferConsistent ==
    /\ (ImportCurrencyID(import) = TrailingTransfer.currency)
           = IsImportToSource(TrailingTransfer)
    /\ (IF ImportCurrencyID(import) = TrailingTransfer.destCurrencyID
        THEN import.importCurrencyDef
        ELSE GetCachedCurrency(TrailingTransfer.destCurrencyID)).valid

\* C28: the trailing fee transfer of an import, made with the native currency of the
\* chain as source currency and without IMPORT_TO_SOURCE, passes the test of the flag
\* against the source currency and the lookup of the destination currency whatever the
\* import currency is, the native currency of the chain included, so that the import
\* of an export without transfers on a fresh descriptor succeeds.
TrailingTransferPasses ==
    pc = "imported" =>
        /\ TrailingTransferConsistent
        /\ (import.exportObjects = <<>> /\ descriptor = CReserveTransactionDescriptor) =>
               first.status = "done"

\* what holds of C28: the trailing transfer passes for every import currency other
\* than the native currency of the chain
TrailingTransferPassesOtherwise ==
    (pc = "imported" /\ ImportCurrencyID(import) # ASSETCHAINS_CHAINID) =>
        /\ TrailingTransferConsistent
        /\ (import.exportObjects = <<>> /\ descriptor = CReserveTransactionDescriptor) =>
               first.status = "done"

\* an import into the native currency of the chain that fails with every transfer
\* of the export handled: the trailing transfer has the import currency as source
\* currency and no IMPORT_TO_SOURCE
NativeImportFails ==
    /\ pc = "imported"
    /\ ImportCurrencyID(import) = ASSETCHAINS_CHAINID
    /\ Len(import.exportObjects) = 1
    /\ IsImportToSource(OnlyTransfer)
    /\ first.status = "failed"
    /\ Len(first.vOutputs) = 1
    /\ Carries(first.vOutputs[1], OnlyTransfer)
    /\ TrailingTransfer.currency = ImportCurrencyID(import)
    /\ ~IsImportToSource(TrailingTransfer)

\* C29: the import never reads or writes reserves, conversionPrice,
\* viaConversionPrice, weights or the matrix of cross conversions at systemDestIdx
\* while systemDestIdx is -1, which it is when the native currency of the destination
\* system is no reserve of the import currency.
NeverOutsideAtSystemDest ==
    pc = "imported" => ~first.locals.outside

\* where the import does so: only into a fractional currency without the native
\* currency as reserve, in a launch-confirmed state or for a transfer that pays its
\* fee in another currency than the native one
OutsideOnlyWithoutNativeReserve ==
    (pc = "imported" /\ first.locals.outside) =>
        /\ SystemDestIdx(import) = 0
        /\ \/ IsLaunchConfirmed(import.importCurrencyState)
              /\ DefIsFractional(import.importCurrencyDef)
           \/ \E i \in 1..Len(import.exportObjects) :
                 import.exportObjects[i].feeCurrencyID # SystemDestID(import)

\* an import of an export without transfers into the launch-confirmed fractional
\* currency without the native currency as reserve: it reads the reserves at -1 and
\* returns as if nothing had happened
ReservesReadOutside ==
    /\ pc = "imported"
    /\ SystemDestIdx(import) = 0
    /\ import.exportObjects = <<>>
    /\ IsLaunchConfirmed(import.importCurrencyState)
    /\ first.locals.outside
    /\ first.status = "done"

\* an import that writes the matrix of cross conversions at -1
CrossConversionsWrittenOutside ==
    /\ pc = "imported"
    /\ SystemDestIdx(import) = 0
    /\ first.locals.outside
    /\ first.status = "aborted"

---------------------------------------------------------------------------
(* C30.  In ConvertAmounts with cross conversions, a second (via) call     *)
(* that fails makes the whole call fail: the call returns the initial      *)
(* prices of the state it was made on and leaves the caller's newState as  *)
(* it was.                                                                 *)

\* the call made its second call, the second call failed and returned
ViaFailed ==
    /\ pc = "returned"
    /\ viaCall.made
    /\ via.body.status \notin {"ok", "noconversion"}

ViaFailureFailsCall ==
    ViaFailed => /\ ret.rates = PricesInReserve_(call.st)
                 /\ ret.newState = call.newState

\* what the code does: the result of the second call is not tested, so the call returns
\* the prices and the state of its first conversion, and the caller's viaPrices are the
\* prior prices of that state
ViaFailureKeepsFirstStage ==
    ViaFailed => /\ ret.rates = FillRates_(call.st, cv.body.rates)
                 /\ ret.newState = cv.body.newState
                 /\ ret.viaPrices = PricesInReserve_(cv.body.newState)

\* a route that is no amount of the fractional currency: the second call refuses the
\* negative amount, and the call returns the state of its first conversion
ViaFailedCallSucceeds ==
    /\ ViaFailed
    /\ via.layers.status = "negative"
    /\ call.cross.rows[1][2] > 0
    /\ viaCall.inputFractional[2] = -1
    /\ call.newState = InvalidCurrencyState
    /\ ret.newState = cv.body.newState
    /\ ret.newState.valid
    /\ ret.rates # PricesInReserve_(call.st)

=============================================================================
